---- MODULE Spec2Model ----
(***************************************************************************)
(* Model of the basketball analytics backend (src/app/main.py).           *)
(*                                                                         *)
(* The upstream statistics provider (nba_api PlayerProfileV2) is an        *)
(* environment: for each player and each (per_mode, season_type)           *)
(* combination it holds one season table and one career-total table, and   *)
(* a fetch of one combination may raise.  Season identifiers "YYYY-YY"     *)
(* are modelled by the integers 1..MaxSeasonId, whose order is the         *)
(* lexicographic order of the strings.                                     *)
(***************************************************************************)
EXTENDS Integers, Sequences, FiniteSets, TLC

VARIABLES
    upstream,    \* player id -> combination -> [seasons, career] held by the provider
    failing,     \* the combination whose fetch raises, or NoCombo
    cache_id,    \* lru_cache of get_player_id, least recently used first
    cache_name,  \* lru_cache of get_player_name_from_id
    cache_data,  \* lru_cache of get_player_data_from_nba_api
    call,        \* the last direct call of a function, or None
    resp,        \* the last request and its answer, or None
    handled,     \* the number of requests handled, or of direct calls made
    look,        \* the last direct lookup in one of the three caches, or None
    recency,     \* per key whose call has returned, its value, least recent first
    usage_log,   \* the rows of the usage_log table, oldest first
    log_fails,   \* whether a write to the usage_log store raises
    active,      \* the listing get_active_players() returns
    patch,       \* the bundles get_player_data_from_nba_api is patched with, or None
    inflight     \* per thread, the call of get_player_data_from_nba_api it is in

vars == <<upstream, failing, cache_id, cache_name, cache_data, call, resp, handled,
          look, recency, usage_log, inflight, log_fails, active, patch>>

\* Python values are tagged records, so that any two of them can be compared:
\* None, an int, a float (fixed-point: FloatV(v) stands for v / 1000), NaN.
None == [t |-> "None"]
IntV(n) == [t |-> "int", v |-> n]
FloatV(n) == [t |-> "float", v |-> n]
NaN == [t |-> "nan"]
\* float("inf") and float("-inf"), a text, an object float() cannot convert
Inf(sign) == [t |-> "inf", sign |-> sign]
StrV(s) == [t |-> "str", v |-> s]
ListV == [t |-> "list"]
\* an exception raised by a conversion
Raised(exc) == [t |-> "raised", exc |-> exc]
\* Exceptions are named by strings; NoExc says that none was raised.
NoExc == "NoExc"
\* No combination at all.
NoCombo == <<>>
\* A local name that no assignment has bound yet.
Unbound == [t |-> "Unbound"]

\* ---------------------------------------------------------------- bounds
\* Season identifiers are 1..MaxSeasonId; the eight upstream data frames of
\* one player hold at most MaxRowsTotal rows together.  The endpoints handle
\* at most MaxRequests requests.
MaxSeasonId == 2
MaxRowsTotal == 3
MaxRequests == 2
MaxCalls == 2

\* ------------------------------------------------------- upstream provider
PerGame == "PerGame"
Advanced == "Advanced"
RegularSeason == "Regular Season"
Playoffs == "Playoffs"
Modes == {PerGame, Advanced}
SeasonTypes == {RegularSeason, Playoffs}
Combos == Modes \X SeasonTypes
SeasonIds == 1..MaxSeasonId

\* One row of a season table (a pandas Series produced by iterrows()).  Every
\* row carries metadata that names the table and the position it comes from,
\* so that the row a record was built from can be told from the record.
SeasonRow(combo, i, sid) ==
    [t |-> "Series",
     cols |-> [SEASON_ID |-> sid,
               TEAM_ABBREVIATION |-> <<combo[1], combo[2], i>>,
               PLAYER_AGE |-> FloatV(1000 * (20 + sid)),
               GP |-> IntV(50 + i),
               MIN |-> FloatV(30000 + 100 * i),
               PTS |-> FloatV(20000 + 1000 * sid + 100 * i),
               TS_PCT |-> FloatV(500 + 10 * sid + i),
               USG_PCT |-> FloatV(300 + i)]]

\* The single row of a non-empty career-total table.
CareerRow(combo) ==
    [t |-> "Series",
     cols |-> [GP |-> IntV(900), MIN |-> FloatV(35000), PTS |-> FloatV(27200),
               TS_PCT |-> FloatV(588), USG_PCT |-> FloatV(315)]]

\* What the provider holds for one combination: the season identifiers of the
\* rows of its season table, in table order, and whether its career-total
\* table has a row.
EmptyProfile == [seasons |-> <<>>, career |-> FALSE]
NoData == [c \in Combos |-> EmptyProfile]

\* season_totals_*.get_data_frame(): the rows of the season table.
season_totals(profile, combo) ==
    [i \in 1..Len(profile.seasons) |-> SeasonRow(combo, i, profile.seasons[i])]

\* career_totals_*.get_data_frame(): the rows of the career-total table.
career_totals(profile, combo) ==
    IF profile.career THEN <<CareerRow(combo)>> ELSE <<>>

\* ------------------------------------------------------------ row parsing
\* pandas Series.get(key, default): the value, or the default when the row has
\* no such column.
row_get(row, key, default) ==
    IF key \in DOMAIN row.cols THEN row.cols[key] ELSE default

\* round(val, precision) on thousandths, ties to even.
round_to(v, precision) ==
    LET unit == IF precision = 1 THEN 100 ELSE IF precision = 2 THEN 10 ELSE 1
        q == v \div unit
        r == v % unit
    IN  IF 2 * r < unit THEN q * unit
        ELSE IF 2 * r > unit THEN (q + 1) * unit
        ELSE IF q % 2 = 0 THEN q * unit ELSE (q + 1) * unit

\* Strings are sequences of one-character strings.
Digit == <<"0", "1", "2", "3", "4", "5", "6", "7", "8", "9">>
is_digits(s) == s # <<>> /\ \A i \in DOMAIN s : \E d \in DOMAIN Digit : Digit[d] = s[i]
digit_value(c) == (CHOOSE d \in DOMAIN Digit : Digit[d] = c) - 1
RECURSIVE int_of(_)
int_of(s) ==
    IF s = <<>> THEN 0 ELSE 10 * int_of(SubSeq(s, 1, Len(s) - 1)) + digit_value(s[Len(s)])
ascii_lower(s) ==
    [i \in DOMAIN s |->
        IF s[i] = "N" THEN "n" ELSE IF s[i] = "A" THEN "a" ELSE IF s[i] = "I" THEN "i"
        ELSE IF s[i] = "F" THEN "f" ELSE IF s[i] = "T" THEN "t" ELSE IF s[i] = "Y" THEN "y"
        ELSE s[i]]
unsigned(s) == IF s # <<>> /\ s[1] \in {"+", "-"} THEN Tail(s) ELSE s
sign_of(s) == IF s # <<>> /\ s[1] = "-" THEN 0 - 1 ELSE 1
dot_of(s) ==
    IF \E i \in DOMAIN s : s[i] = "." THEN CHOOSE i \in DOMAIN s : s[i] = "." ELSE 0
pow10(n) == IF n = 0 THEN 1 ELSE IF n = 1 THEN 10 ELSE IF n = 2 THEN 100 ELSE 1000

\* float(text) for a text without blanks or exponent and at most three
\* decimals: the not-a-number and infinity words in any case, a decimal
\* number, or ValueError.
float_of_decimal(s, body, dot) ==
    IF dot = 0
    THEN (IF is_digits(body) THEN FloatV(sign_of(s) * 1000 * int_of(body))
          ELSE Raised("ValueError"))
    ELSE IF /\ is_digits(SubSeq(body, 1, dot - 1))
            /\ is_digits(SubSeq(body, dot + 1, Len(body)))
            /\ Len(body) - dot <= 3
    THEN FloatV(sign_of(s) * (1000 * int_of(SubSeq(body, 1, dot - 1))
                              + pow10(3 - (Len(body) - dot))
                                * int_of(SubSeq(body, dot + 1, Len(body)))))
    ELSE Raised("ValueError")

float_of_text(s) ==
    IF ascii_lower(unsigned(s)) = <<"n", "a", "n">> THEN NaN
    ELSE IF ascii_lower(unsigned(s)) \in {<<"i", "n", "f">>,
                                          <<"i", "n", "f", "i", "n", "i", "t", "y">>}
    THEN Inf(sign_of(s))
    ELSE float_of_decimal(s, unsigned(s), dot_of(unsigned(s)))

\* float(value): a float, or the exception raised.
float_of(value) ==
    IF value.t = "int" THEN FloatV(1000 * value.v)
    ELSE IF value.t \in {"float", "inf", "nan"} THEN value
    ELSE IF value.t = "str" THEN float_of_text(value.v)
    ELSE Raised("TypeError")

\* round(val, precision): a not-a-number and an infinity stay what they are.
round_float(val, precision) ==
    IF val.t = "float" THEN FloatV(round_to(val.v, precision)) ELSE val

\* The float of float(value), rounded when a precision is given; None when
\* float raised ValueError or TypeError.
safe_float_of(val, precision) ==
    IF val.t = "raised" THEN None
    ELSE IF precision # None THEN round_float(val, precision.v) ELSE val

\* None for None and for a float that pandas finds missing (not-a-number);
\* every other value goes through float(value).  An int is held as a float
\* whose thousandths are whole.
safe_float(value, precision) ==
    IF value = None \/ value.t = "nan" THEN None
    ELSE safe_float_of(float_of(value), precision)

\* The validation pydantic gives a value for an Optional[int] field: None and
\* an int pass, a float without a fractional part and a text of digits become
\* the int; anything else (a not-a-number, an infinity, a fraction, any other
\* text or object) raises ValidationError.
int_field(value) ==
    IF value = None \/ value.t = "int" THEN value
    ELSE IF value.t = "float" /\ value.v % 1000 = 0 THEN IntV(value.v \div 1000)
    ELSE IF value.t = "str" /\ is_digits(unsigned(value.v))
    THEN IntV(sign_of(value.v) * int_of(unsigned(value.v)))
    ELSE Raised("ValidationError")

\* BasicStatsModel(**fields): the instance, or the ValidationError raised for
\* one of its two int fields.  The float fields hold None or a float, which
\* always pass.
BasicStatsModel(fields) ==
    IF fields.gp.t = "raised" \/ fields.gs.t = "raised" THEN Raised("ValidationError")
    ELSE fields

_parse_api_row_to_basic_stats(row) ==
  BasicStatsModel(
    [t |-> "BasicStatsModel",
     gp |-> int_field(row_get(row, "GP", None)),
     gs |-> int_field(row_get(row, "GS", None)),
     min_per_game |-> safe_float(row_get(row, "MIN", None), IntV(1)),
     pts_per_game |-> safe_float(row_get(row, "PTS", None), IntV(1)),
     fga_per_game |-> safe_float(row_get(row, "FGA", None), IntV(1)),
     fg_pct |-> safe_float(row_get(row, "FG_PCT", None), IntV(3)),
     fg3m_per_game |-> safe_float(row_get(row, "FG3M", None), IntV(1)),
     fg3_pct |-> safe_float(row_get(row, "FG3_PCT", None), IntV(3)),
     fta_per_game |-> safe_float(row_get(row, "FTA", None), IntV(1)),
     ft_pct |-> safe_float(row_get(row, "FT_PCT", None), IntV(3)),
     reb_per_game |-> safe_float(row_get(row, "REB", None), IntV(1)),
     ast_per_game |-> safe_float(row_get(row, "AST", None), IntV(1)),
     tov_per_game |-> safe_float(row_get(row, "TOV", None), IntV(1)),
     stl_per_game |-> safe_float(row_get(row, "STL", None), IntV(1)),
     blk_per_game |-> safe_float(row_get(row, "BLK", None), IntV(1))])

_parse_api_row_to_advanced_stats(row) ==
    [t |-> "AdvancedStatsModel",
     off_rating |-> safe_float(row_get(row, "OFF_RATING", None), IntV(1)),
     def_rating |-> safe_float(row_get(row, "DEF_RATING", None), IntV(1)),
     net_rating |-> safe_float(row_get(row, "NET_RATING", None), IntV(1)),
     ast_pct |-> safe_float(row_get(row, "AST_PCT", None), IntV(3)),
     reb_pct |-> safe_float(row_get(row, "REB_PCT", None), IntV(3)),
     ts_pct |-> safe_float(row_get(row, "TS_PCT", None), IntV(3)),
     usg_pct |-> safe_float(row_get(row, "USG_PCT", None), IntV(3)),
     pie |-> safe_float(row_get(row, "PIE", None), IntV(3)),
     ws |-> safe_float(row_get(row, "WS", None), IntV(1))]

\* ------------------------------------------------------------ Python idiom
\* The truth value Python gives an object in `if x`, `not x`, `x and y`.
\* None is false.  A pandas Series has no truth value: Series.__bool__ raises
\* ValueError ("The truth value of a Series is ambiguous") for every Series.
\* An int or a float is true when it is not 0.  Every other object here (a model
\* instance, an endpoint object) is true.
truth(v) ==
    IF v = None THEN "False"
    ELSE IF v.t = "Series" THEN "ValueError"
    ELSE IF v.t \in {"int", "float"} THEN (IF v.v = 0 THEN "False" ELSE "True")
    ELSE "True"

\* A number as thousandths: an int n is n * 1000.
thousandths(v) == IF v.t = "int" THEN 1000 * v.v ELSE v.v

\* The truth value of a list or None: an empty list is false.
\* A list of one item and None are told apart by their printed forms: TLC
\* cannot compare a one-element sequence with a one-field record.
list_truth(l) == ToString(l) # ToString(None) /\ l # <<>>

\* Strings the code inspects are sequences of one-character strings.
UpperCase == <<"A", "B", "C", "D", "E", "F", "G", "H", "I", "J", "K", "L", "M",
               "N", "O", "P", "Q", "R", "S", "T", "U", "V", "W", "X", "Y", "Z">>
LowerCase == <<"a", "b", "c", "d", "e", "f", "g", "h", "i", "j", "k", "l", "m",
               "n", "o", "p", "q", "r", "s", "t", "u", "v", "w", "x", "y", "z">>
lower_char(c) ==
    IF \E i \in DOMAIN UpperCase : UpperCase[i] = c
    THEN LowerCase[CHOOSE i \in DOMAIN UpperCase : UpperCase[i] = c]
    ELSE c
\* str.lower()
str_lower(s) == [i \in DOMAIN s |-> lower_char(s[i])]
upper_char(c) ==
    IF \E i \in DOMAIN LowerCase : LowerCase[i] = c
    THEN UpperCase[CHOOSE i \in DOMAIN LowerCase : LowerCase[i] = c]
    ELSE c
\* str.upper()
str_upper(s) == [i \in DOMAIN s |-> upper_char(s[i])]
\* str.replace(a, b) for one-character a and b
str_replace(s, a, b) == [i \in DOMAIN s |-> IF s[i] = a THEN b ELSE s[i]]
\* sub in s
str_in(sub, s) ==
    \E i \in 0..(Len(s) - Len(sub)) : SubSeq(s, i + 1, i + Len(sub)) = sub

RECURSIVE str_remove(_, _)
\* str.replace(sub, ""): every occurrence of sub is taken out, left to right.
str_remove(s, sub) ==
    IF Len(s) < Len(sub) THEN s
    ELSE IF SubSeq(s, 1, Len(sub)) = sub
    THEN str_remove(SubSeq(s, Len(sub) + 1, Len(s)), sub)
    ELSE <<Head(s)>> \o str_remove(Tail(s), sub)

RECURSIVE sorted(_)
\* sorted(list(S)) for a set of season identifiers: ascending.
sorted(S) ==
    IF S = {} THEN <<>>
    ELSE LET m == CHOOSE x \in S : \A y \in S : x <= y
         IN  <<m>> \o sorted(S \ {m})

\* --------------------------------------------------- season reconciliation
\* fetch_profile_data: the provider's answer for one combination, or None when
\* the fetch raised (the exception is caught and printed).  The function-local
\* api_data_cache never hits: each combination is fetched once per call.
fetch_profile_data(player_id, per_mode, season_type) ==
    IF failing = <<per_mode, season_type>> THEN None
    ELSE [t |-> "PlayerProfileV2",
          data |-> upstream[player_id][<<per_mode, season_type>>]]

\* The index of the last row of the table with this season identifier: a dict
\* comprehension keeps the last value written for a key.
last_row_of(rows, sid) ==
    CHOOSE i \in DOMAIN rows :
        /\ rows[i].cols.SEASON_ID = sid
        /\ \A j \in DOMAIN rows : j > i => rows[j].cols.SEASON_ID # sid

\* {row['SEASON_ID']: {"basic": parse(row), "meta": row} for _, row in df.iterrows()}
temp_season_data_basic(rows) ==
    [sid \in {rows[i].cols.SEASON_ID : i \in DOMAIN rows} |->
        [basic |-> _parse_api_row_to_basic_stats(rows[last_row_of(rows, sid)]),
         meta |-> rows[last_row_of(rows, sid)]]]

\* {row['SEASON_ID']: {"advanced": parse(row), "meta": row} for _, row in df.iterrows()}
temp_season_data_adv(rows) ==
    [sid \in {rows[i].cols.SEASON_ID : i \in DOMAIN rows} |->
        [advanced |-> _parse_api_row_to_advanced_stats(rows[last_row_of(rows, sid)]),
         meta |-> rows[last_row_of(rows, sid)]]]

SeasonStats(season_id, meta_s, basic_s, adv_s) ==
    [t |-> "SeasonStats", season_id |-> season_id,
     team_abbreviation |-> row_get(meta_s, "TEAM_ABBREVIATION", "N/A"),
     player_age |-> row_get(meta_s, "PLAYER_AGE", None),
     basic_stats |-> basic_s, advanced_stats |-> adv_s]

\* One iteration of `for season_id in sorted(list(all_season_ids))`.
\* st = [list, meta_s_adv, exc]: the list built so far, the binding of the
\* local meta_s_adv (it is assigned only when the season is in the advanced
\* table, and keeps its value across iterations), and the exception raised.
season_step(season_id, basic, adv, st) ==
    LET in_basic == season_id \in DOMAIN basic
        in_adv == season_id \in DOMAIN adv
        basic_s == IF in_basic THEN basic[season_id].basic ELSE None
        meta_s0 == IF in_basic THEN basic[season_id].meta ELSE None
        adv_s == IF in_adv THEN adv[season_id].advanced ELSE None
        meta_s_adv == IF in_adv THEN adv[season_id].meta ELSE st.meta_s_adv
        \* if not meta_s and meta_s_adv: meta_s = meta_s_adv
        t1 == truth(meta_s0)
        t2 == IF meta_s_adv = Unbound THEN "UnboundLocalError" ELSE truth(meta_s_adv)
        exc == IF t1 = "ValueError" THEN "ValueError"
               ELSE IF t1 = "True" THEN NoExc
               ELSE IF t2 \in {"ValueError", "UnboundLocalError"} THEN t2
               ELSE NoExc
        meta_s == IF t1 = "False" /\ t2 = "True" THEN meta_s_adv ELSE meta_s0
    IN  IF exc # NoExc
        THEN [list |-> st.list, meta_s_adv |-> meta_s_adv, exc |-> exc]
        ELSE [list |-> IF meta_s # None
                       THEN Append(st.list, SeasonStats(season_id, meta_s, basic_s, adv_s))
                       ELSE st.list,
              meta_s_adv |-> meta_s_adv, exc |-> NoExc]

RECURSIVE season_loop(_, _, _, _)
season_loop(ids, basic, adv, st) ==
    IF ids = <<>> \/ st.exc # NoExc THEN st
    ELSE season_loop(Tail(ids), basic, adv, season_step(Head(ids), basic, adv, st))

CareerStats(basic_stats, advanced_stats) ==
    [t |-> "CareerStats", basic_stats |-> basic_stats, advanced_stats |-> advanced_stats]

\* The block `if fetch_regular_season:` (and its copy `if fetch_playoffs:`):
\* the fetches of one season type, the two temporary tables, the career record
\* and the merge loop.  Returns the list, the career record, the exception
\* raised (None when none), the combinations fetched, in order, and the binding
\* of the function-local meta_s_adv, which the playoff block inherits from the
\* regular-season block.
\* The career record and the result of the block, after the merge loop.
season_pipeline_merged(pg, ad, pg_career, ad_career, done, season_type, fetch_basic, fetch_advanced) ==
    [list |-> done.list,
     meta_s_adv |-> done.meta_s_adv,
     career |-> CareerStats(
         IF truth(pg) = "True" /\ pg_career # <<>>
         THEN _parse_api_row_to_basic_stats(pg_career[1]) ELSE None,
         IF truth(ad) = "True" /\ ad_career # <<>>
         THEN _parse_api_row_to_advanced_stats(ad_career[1]) ELSE None),
     exc |-> done.exc,
     fetches |-> (IF fetch_basic THEN <<<<PerGame, season_type>>>> ELSE <<>>)
                 \o (IF fetch_advanced THEN <<<<Advanced, season_type>>>> ELSE <<>>)]

\* The merge loop over the two temporary tables.
season_pipeline_tabled(pg, ad, basic, adv, season_type, fetch_basic, fetch_advanced, meta_s_adv_in) ==
    season_pipeline_merged(
        pg, ad,
        career_totals(pg.data, <<PerGame, season_type>>),
        career_totals(ad.data, <<Advanced, season_type>>),
        season_loop(sorted(DOMAIN basic \cup DOMAIN adv), basic, adv,
                    [list |-> <<>>, meta_s_adv |-> meta_s_adv_in, exc |-> NoExc]),
        season_type, fetch_basic, fetch_advanced)

\* A row of the career-total table or of the season table of the basic answer
\* does not pass the validation of BasicStatsModel.
basic_parse_raises(rows) ==
    \E i \in DOMAIN rows : _parse_api_row_to_basic_stats(rows[i]).t = "raised"

\* The block when the parse of a basic row raised: the exception leaves the
\* function before the advanced answer is fetched.
season_pipeline_raised(season_type, meta_s_adv_in) ==
    [list |-> <<>>, meta_s_adv |-> meta_s_adv_in, career |-> CareerStats(None, None),
     exc |-> "ValidationError", fetches |-> <<<<PerGame, season_type>>>>]

\* The two temporary tables of the answers fetched.
season_pipeline_fetched(pg, ad, season_type, fetch_basic, fetch_advanced, meta_s_adv_in) ==
  IF truth(pg) = "True"
     /\ basic_parse_raises(career_totals(pg.data, <<PerGame, season_type>>)
                           \o season_totals(pg.data, <<PerGame, season_type>>))
  THEN season_pipeline_raised(season_type, meta_s_adv_in)
  ELSE
    season_pipeline_tabled(
        pg, ad,
        IF truth(pg) = "True"
        THEN temp_season_data_basic(season_totals(pg.data, <<PerGame, season_type>>)) ELSE <<>>,
        IF truth(ad) = "True"
        THEN temp_season_data_adv(season_totals(ad.data, <<Advanced, season_type>>)) ELSE <<>>,
        season_type, fetch_basic, fetch_advanced, meta_s_adv_in)

season_pipeline(player_id, season_type, fetch_basic, fetch_advanced, meta_s_adv_in) ==
    season_pipeline_fetched(
        IF fetch_basic THEN fetch_profile_data(player_id, PerGame, season_type) ELSE None,
        IF fetch_advanced THEN fetch_profile_data(player_id, Advanced, season_type) ELSE None,
        season_type, fetch_basic, fetch_advanced, meta_s_adv_in)

\* The state both blocks start from when their `if` is not taken.
NoPipeline(meta_s_adv_in) ==
    [list |-> <<>>, meta_s_adv |-> meta_s_adv_in, career |-> CareerStats(None, None),
     exc |-> NoExc, fetches |-> <<>>]

\* A list returned as it is, empty or not: what `x or None` is not.
list_as_is(l) == l

\* `x or None` for a list, and `c if c.basic_stats or c.advanced_stats else None`.
list_or_none(l) == IF l = <<>> THEN None ELSE l
career_or_none(c) ==
    IF truth(c.basic_stats) = "True" \/ truth(c.advanced_stats) = "True" THEN c ELSE None

\* The body of get_player_data_from_nba_api: [exc, value, fetches].  An
\* exception in the regular-season block ends the call before the playoff block.
get_player_data_blocks(reg, pst) ==
    IF reg.exc # NoExc
    THEN [exc |-> reg.exc, value |-> None, fetches |-> reg.fetches]
    ELSE IF pst.exc # NoExc
    THEN [exc |-> pst.exc, value |-> None, fetches |-> reg.fetches \o pst.fetches]
    ELSE [exc |-> NoExc,
          value |-> [historical_regular_seasons |-> list_or_none(reg.list),
                     career_regular_season |-> career_or_none(reg.career),
                     historical_playoff_seasons |-> list_or_none(pst.list),
                     career_playoffs |-> career_or_none(pst.career)],
          fetches |-> reg.fetches \o pst.fetches]

get_player_data_regular(reg, player_id, fetch_playoffs, fetch_basic, fetch_advanced) ==
    get_player_data_blocks(
        reg,
        IF fetch_playoffs
        THEN season_pipeline(player_id, Playoffs, fetch_basic, fetch_advanced, reg.meta_s_adv)
        ELSE NoPipeline(reg.meta_s_adv))

get_player_data_body(player_id, fetch_regular_season, fetch_playoffs, fetch_basic, fetch_advanced) ==
    get_player_data_regular(
        IF fetch_regular_season
        THEN season_pipeline(player_id, RegularSeason, fetch_basic, fetch_advanced, Unbound)
        ELSE NoPipeline(Unbound),
        player_id, fetch_playoffs, fetch_basic, fetch_advanced)

\* ------------------------------------------------------------- lru_cache
\* functools.lru_cache(maxsize): a hit returns the stored value and makes the
\* key the most recently used; a miss runs the function, stores the value it
\* returns and, when the cache then holds more than maxsize keys, drops the
\* least recently used one.  A call that raises stores nothing.  The cache is a
\* sequence of [key, value], least recently used first.
lru_index(cache, key) ==
    IF \E i \in DOMAIN cache : cache[i].key = key
    THEN CHOOSE i \in DOMAIN cache : cache[i].key = key
    ELSE 0

lru_remove(cache, i) == SubSeq(cache, 1, i - 1) \o SubSeq(cache, i + 1, Len(cache))

\* An entry left in its place when it is used: first in, first out.
lru_keep_place(cache, i) == cache

\* A used entry becomes the most recently used one.
lru_touch(cache, i) == Append(lru_remove(cache, i), cache[i])

\* A cache that keeps complete bundles only: a bundle whose four fields are
\* null is not stored.
lru_store_complete(cache, maxsize, key, value) ==
    IF \A f \in DOMAIN value : value[f] = None THEN cache
    ELSE IF Len(cache) + 1 > maxsize
    THEN Tail(Append(cache, [key |-> key, value |-> value]))
    ELSE Append(cache, [key |-> key, value |-> value])

lru_store(cache, maxsize, key, value) ==
    LET c == Append(cache, [key |-> key, value |-> value])
    IN  IF Len(c) > maxsize THEN Tail(c) ELSE c

MaxsizeData == 64

\* One call through @lru_cache(maxsize=64) of a function whose body gives r,
\* for a key found at place i of the cache (0 when it is not there):
\* [exc, value, fetches, hit, cache].
lru_cached_call(cache, key, i, r) ==
    IF i # 0
    THEN [exc |-> NoExc, value |-> cache[i].value, fetches |-> <<>>, hit |-> TRUE,
          cache |-> lru_touch(cache, i)]
    ELSE [exc |-> r.exc, value |-> r.value, fetches |-> r.fetches, hit |-> FALSE,
          cache |-> IF r.exc = NoExc
                    THEN lru_store(cache, MaxsizeData, key, r.value) ELSE cache]

\* get_player_data_from_nba_api behind @lru_cache(maxsize=64).
get_player_data_from_nba_api(cache, player_id, fetch_regular_season, fetch_playoffs, fetch_basic, fetch_advanced) ==
    lru_cached_call(
        cache,
        <<player_id, fetch_regular_season, fetch_playoffs, fetch_basic, fetch_advanced>>,
        lru_index(cache, <<player_id, fetch_regular_season, fetch_playoffs, fetch_basic,
                           fetch_advanced>>),
        get_player_data_body(player_id, fetch_regular_season, fetch_playoffs,
                             fetch_basic, fetch_advanced))

\* ---------------------------------------------------------- the directory
\* players.get_players(): the static directory listing.  Player 3 has a
\* hyphen in the canonical full name.
players_get_players ==
    <<[id |-> 1, full_name |-> <<"L", " ", "J">>],
      [id |-> 2, full_name |-> <<"S", " ", "C">>],
      [id |-> 3, full_name |-> <<"K", "-", "T">>]>>

UnknownPlayer == <<"U", "n", "k", "n", "o", "w", "n", " ", "P", "l", "a", "y", "e", "r">>

MaxsizeName == 32
MaxsizeId == 128

\* The body of get_player_name_from_id: the first entry with this id.
get_player_name_from_id_body(player_id) ==
    LET player_list == players_get_players
        hits == {i \in DOMAIN player_list : player_list[i].id = player_id}
    IN  IF hits # {}
        THEN player_list[CHOOSE i \in hits : \A j \in hits : i <= j].full_name
        ELSE UnknownPlayer

\* The body of get_player_id: the id of the first entry whose lower-cased full
\* name equals the lower-cased input with hyphens turned into spaces, or None.
get_player_id_body(name) ==
    LET player_list == players_get_players
        name_lower == str_replace(str_lower(name), "-", " ")
        hits == {i \in DOMAIN player_list : str_lower(player_list[i].full_name) = name_lower}
    IN  IF hits # {}
        THEN IntV(player_list[CHOOSE i \in hits : \A j \in hits : i <= j].id)
        ELSE None

\* get_player_name_from_id behind @lru_cache(maxsize=32): [value, listings, cache].
get_player_name_from_id(cache, player_id) ==
    LET i == lru_index(cache, player_id)
    IN  IF i # 0
        THEN [value |-> cache[i].value, listings |-> 0, cache |-> lru_touch(cache, i)]
        ELSE [value |-> get_player_name_from_id_body(player_id), listings |-> 1,
              cache |-> lru_store(cache, MaxsizeName, player_id,
                                  get_player_name_from_id_body(player_id))]

\* get_player_id behind @lru_cache(maxsize=128): [value, listings, cache].
get_player_id(cache, name) ==
    LET i == lru_index(cache, name)
    IN  IF i # 0
        THEN [value |-> cache[i].value, listings |-> 0, cache |-> lru_touch(cache, i)]
        ELSE [value |-> get_player_id_body(name), listings |-> 1,
              cache |-> lru_store(cache, MaxsizeId, name, get_player_id_body(name))]

\* ------------------------------------------------------------ the endpoints
REGULAR == <<"r", "e", "g", "u", "l", "a", "r">>
PLAYOFFS == <<"p", "l", "a", "y", "o", "f", "f", "s">>
ALL == <<"a", "l", "l">>
BASIC == <<"b", "a", "s", "i", "c">>
ADVANCED == <<"a", "d", "v", "a", "n", "c", "e", "d">>

\* The same test on the value as it was sent, without .lower().
selects_as_sent(word, value) == str_in(word, value) \/ str_in(ALL, value)

\* "regular" in season_type.lower() or "all" in season_type.lower(), and so on.
selects(word, value) == str_in(word, str_lower(value)) \/ str_in(ALL, str_lower(value))

\* The fetches of one reconciliation call, tagged with the player.
fetches_of(player_id, r) == [i \in DOMAIN r.fetches |-> <<player_id>> \o r.fetches[i]]

\* PlayerStatsSummary from the last regular-season record, or None when the
\* list is null or that record has no basic stats.
latest_season_summary(data) ==
    LET seasons == data.historical_regular_seasons
        latest == seasons[Len(seasons)]
    IN  IF list_truth(seasons) /\ truth(latest.basic_stats) = "True"
        THEN [t |-> "PlayerStatsSummary",
              points_per_game |-> latest.basic_stats.pts_per_game,
              true_shooting_pct |-> IF truth(latest.advanced_stats) = "True"
                                    THEN latest.advanced_stats.ts_pct ELSE None,
              minutes_per_game |-> latest.basic_stats.min_per_game,
              usage_rate |-> IF truth(latest.advanced_stats) = "True"
                             THEN latest.advanced_stats.usg_pct ELSE None,
              team |-> latest.team_abbreviation]
        ELSE None

PlayerProfileResponse(player_id, player_name, summary, data) ==
    [player_id |-> player_id, player_name |-> player_name,
     latest_season_summary |-> summary,
     career_regular_season |-> data.career_regular_season,
     career_playoffs |-> data.career_playoffs,
     historical_regular_seasons |-> data.historical_regular_seasons,
     historical_playoff_seasons |-> data.historical_playoff_seasons]

\* An HTTP answer: the status, the detail of an error (msg, and whether the
\* text of the internal exception is appended to it) and the body of a 200.
HTTPException(status, msg, exc_text) ==
    [status |-> status, detail |-> [msg |-> msg, exc_text |-> exc_text], body |-> None]
Ok(body) == [status |-> 200, detail |-> None, body |-> body]

\* What a handler leaves behind: its answer, the caches, the upstream fetches
\* it issued and the number of directory listings it took.
Outcome(answer, c_id, c_name, c_data, fetches, listings) ==
    [answer |-> answer, cache_id |-> c_id, cache_name |-> c_name, cache_data |-> c_data,
     fetches |-> fetches, listings |-> listings]

\* GET /player/{name}, from the try block on: r is the outcome of
\* get_player_data_from_nba_api, rid and rname those of the two lookups.
player_profile_answer(rid, rname, r) ==
    IF r.exc = "ValueError"
    THEN Outcome(HTTPException(500, "Player data issue: ", TRUE),
                 rid.cache, rname.cache, r.cache, fetches_of(rid.value.v, r),
                 rid.listings + rname.listings)
    ELSE IF r.exc # NoExc
    THEN Outcome(HTTPException(500, "Error retrieving or processing player data.", FALSE),
                 rid.cache, rname.cache, r.cache, fetches_of(rid.value.v, r),
                 rid.listings + rname.listings)
    ELSE Outcome(Ok(PlayerProfileResponse(rid.value.v, rname.value,
                                          latest_season_summary(r.value), r.value)),
                 rid.cache, rname.cache, r.cache, fetches_of(rid.value.v, r),
                 rid.listings + rname.listings)

\* GET /player/{name}, from the filters on.
player_profile_filtered(c, rid, rname, fetch_regular, fetch_playoffs, fetch_basic_stats, fetch_advanced_stats) ==
    IF ~(fetch_regular \/ fetch_playoffs)
    THEN Outcome(HTTPException(400, "Invalid season_type. Must be 'regular', 'playoffs', or 'all'.", FALSE),
                 rid.cache, rname.cache, c.cache_data, <<>>, rid.listings + rname.listings)
    ELSE IF ~(fetch_basic_stats \/ fetch_advanced_stats)
    THEN Outcome(HTTPException(400, "Invalid stats_mode. Must be 'basic', 'advanced', or 'all'.", FALSE),
                 rid.cache, rname.cache, c.cache_data, <<>>, rid.listings + rname.listings)
    ELSE player_profile_answer(rid, rname,
             get_player_data_from_nba_api(c.cache_data, rid.value.v, fetch_regular,
                 fetch_playoffs, fetch_basic_stats, fetch_advanced_stats))

\* GET /player/{name}, from `if not player_id` on.
player_profile_resolved(c, rid, season_type, stats_mode) ==
    IF truth(rid.value) # "True"
    THEN Outcome(HTTPException(404, "Player not found", FALSE),
                 rid.cache, c.cache_name, c.cache_data, <<>>, rid.listings)
    ELSE player_profile_filtered(c, rid, get_player_name_from_id(c.cache_name, rid.value.v),
             selects(REGULAR, season_type), selects(PLAYOFFS, season_type),
             selects(BASIC, stats_mode), selects(ADVANCED, stats_mode))

\* GET /player/{name}
get_player_profile(c, name, season_type, stats_mode) ==
    player_profile_resolved(c, get_player_id(c.cache_id, name), season_type, stats_mode)

\* GET /compare, after both reconciliations have returned: the two name
\* lookups and the answer, keyed by the names as they were sent.
compare_answer(player1_name, player2_name, r1, r2, d1, d2, n1, n2) ==
    Outcome(Ok({[key |-> player1_name,
                 profile |-> IF player1_name = player2_name
                             THEN PlayerProfileResponse(r2.value.v, n2.value,
                                      latest_season_summary(d2.value), d2.value)
                             ELSE PlayerProfileResponse(r1.value.v, n1.value,
                                      latest_season_summary(d1.value), d1.value)],
                [key |-> player2_name,
                 profile |-> PlayerProfileResponse(r2.value.v, n2.value,
                                 latest_season_summary(d2.value), d2.value)]}),
            r2.cache, n2.cache, d2.cache,
            fetches_of(r1.value.v, d1) \o fetches_of(r2.value.v, d2),
            r1.listings + r2.listings + n1.listings + n2.listings)

compare_named(player1_name, player2_name, r1, r2, d1, d2, n1) ==
    compare_answer(player1_name, player2_name, r1, r2, d1, d2, n1,
                   get_player_name_from_id(n1.cache, r2.value.v))

\* GET /compare, the try block: d1 and d2 are the outcomes of the two calls of
\* get_player_data_from_nba_api, the second of which is not made when the
\* first raises.
compare_second(c, player1_name, player2_name, r1, r2, d1, d2) ==
    IF d2.exc # NoExc
    THEN Outcome(HTTPException(500, "Error retrieving data for comparison: ", TRUE),
                 r2.cache, c.cache_name, d2.cache,
                 fetches_of(r1.value.v, d1) \o fetches_of(r2.value.v, d2),
                 r1.listings + r2.listings)
    ELSE compare_named(player1_name, player2_name, r1, r2, d1, d2,
                       get_player_name_from_id(c.cache_name, r1.value.v))

compare_first(c, player1_name, player2_name, r1, r2, fetch_regular, fetch_playoffs, fetch_basic, fetch_advanced, d1) ==
    IF d1.exc # NoExc
    THEN Outcome(HTTPException(500, "Error retrieving data for comparison: ", TRUE),
                 r2.cache, c.cache_name, d1.cache, fetches_of(r1.value.v, d1),
                 r1.listings + r2.listings)
    ELSE compare_second(c, player1_name, player2_name, r1, r2, d1,
             get_player_data_from_nba_api(d1.cache, r2.value.v, fetch_regular,
                 fetch_playoffs, fetch_basic, fetch_advanced))

\* GET /compare, from `if not p1_id` on.
compare_resolved(c, player1_name, player2_name, r1, r2, fetch_regular, fetch_playoffs, fetch_basic, fetch_advanced) ==
    IF truth(r1.value) # "True"
    THEN Outcome(HTTPException(404, "Player '{player1_name}' not found", FALSE),
                 r2.cache, c.cache_name, c.cache_data, <<>>, r1.listings + r2.listings)
    ELSE IF truth(r2.value) # "True"
    THEN Outcome(HTTPException(404, "Player '{player2_name}' not found", FALSE),
                 r2.cache, c.cache_name, c.cache_data, <<>>, r1.listings + r2.listings)
    ELSE IF ~(fetch_regular \/ fetch_playoffs)
    THEN Outcome(HTTPException(400, "Invalid season_type for comparison.", FALSE),
                 r2.cache, c.cache_name, c.cache_data, <<>>, r1.listings + r2.listings)
    ELSE IF ~(fetch_basic \/ fetch_advanced)
    THEN Outcome(HTTPException(400, "Invalid stats_mode for comparison.", FALSE),
                 r2.cache, c.cache_name, c.cache_data, <<>>, r1.listings + r2.listings)
    ELSE compare_first(c, player1_name, player2_name, r1, r2, fetch_regular,
             fetch_playoffs, fetch_basic, fetch_advanced,
             get_player_data_from_nba_api(c.cache_data, r1.value.v, fetch_regular,
                 fetch_playoffs, fetch_basic, fetch_advanced))

compare_lookup(c, player1_name, player2_name, season_type, stats_mode, r1) ==
    compare_resolved(c, player1_name, player2_name, r1,
        get_player_id(r1.cache, player2_name),
        selects(REGULAR, season_type), selects(PLAYOFFS, season_type),
        selects(BASIC, stats_mode), selects(ADVANCED, stats_mode))

\* GET /compare
compare_players(c, player1_name, player2_name, season_type, stats_mode) ==
    compare_lookup(c, player1_name, player2_name, season_type, stats_mode,
                   get_player_id(c.cache_id, player1_name))

\* One iteration of `for player_slug in request.players` of POST /lineup.
\* st = [answer, cache_id, cache_name, cache_data, fetches, listings,
\* summaries, names, metric]; answer is None while no exception has ended the loop.
\* A player without a summary adds an empty one.
lineup_fetched(st, rid, rname, r) ==
    IF r.exc # NoExc
    THEN [st EXCEPT !.answer = HTTPException(500, "Error retrieving data for player {player_slug} in lineup.", FALSE),
                    !.cache_id = rid.cache, !.cache_name = rname.cache,
                    !.cache_data = r.cache,
                    !.fetches = st.fetches \o fetches_of(rid.value.v, r),
                    !.listings = st.listings + rid.listings + rname.listings,
                    !.names = Append(st.names, rname.value)]
    ELSE [st EXCEPT !.cache_id = rid.cache, !.cache_name = rname.cache,
                    !.cache_data = r.cache,
                    !.fetches = st.fetches \o fetches_of(rid.value.v, r),
                    !.listings = st.listings + rid.listings + rname.listings,
                    !.names = Append(st.names, rname.value),
                    !.summaries = Append(st.summaries, latest_season_summary(r.value))]

lineup_resolved(st, rid) ==
    IF truth(rid.value) # "True"
    THEN [st EXCEPT !.answer = HTTPException(404, "Player '{player_slug}' not found in lineup.", FALSE),
                    !.cache_id = rid.cache, !.listings = st.listings + rid.listings]
    ELSE lineup_fetched(st, rid, get_player_name_from_id(st.cache_name, rid.value.v),
             get_player_data_from_nba_api(st.cache_data, rid.value.v, TRUE, FALSE, TRUE, TRUE))

lineup_step(player_slug, st) == lineup_resolved(st, get_player_id(st.cache_id, player_slug))

RECURSIVE lineup_loop(_, _)
lineup_loop(players, st) ==
    IF players = <<>> \/ st.answer # None THEN st
    ELSE lineup_loop(Tail(players), lineup_step(Head(players), st))

\* The fields of PlayerStatsSummary whose annotation is Optional[float]
\* (usage_rate is Optional[Union[str, float]], team is Optional[str]).
numeric_fields == <<"points_per_game", "true_shooting_pct", "minutes_per_game">>

RECURSIVE field_values(_, _)
\* [p.get(field) for p in summaries if isinstance(p.get(field), (int, float))]:
\* a summary is dumped without its None fields, a player without summary
\* gives an empty dict.
field_values(summaries, field) ==
    IF summaries = <<>> THEN <<>>
    ELSE (IF Head(summaries) # None /\ Head(summaries)[field] # None
          THEN <<Head(summaries)[field]>> ELSE <<>>)
         \o field_values(Tail(summaries), field)

RECURSIVE sum_values(_)
sum_values(values) ==
    IF values = <<>> THEN 0 ELSE thousandths(Head(values)) + sum_values(Tail(values))

\* round(total / n, 2) on thousandths, ties to even.
round_ratio(total, n) ==
    LET q == total \div (10 * n)
        r == total % (10 * n)
    IN  IF 2 * r < 10 * n THEN 10 * q
        ELSE IF 2 * r > 10 * n THEN 10 * (q + 1)
        ELSE IF q % 2 = 0 THEN 10 * q ELSE 10 * (q + 1)

\* The entry of one field: avg_<field> is the sum over the number of values
\* present, total_<field> the sum, both rounded to two decimals.
aggregated_field(field, values, metric) ==
    IF metric = <<"a", "v", "g">>
    THEN <<<<"avg_", field>>, FloatV(round_ratio(sum_values(values), Len(values)))>>
    ELSE <<<<"total_", field>>, FloatV(round_ratio(sum_values(values), 1))>>

RECURSIVE aggregated_stats(_, _, _)
\* The loop `for field in numeric_fields`: a field no summary has a value for
\* is passed over.
aggregated_stats(fields, summaries, metric) ==
    IF fields = <<>> THEN <<>>
    ELSE (IF field_values(summaries, Head(fields)) = <<>> THEN <<>>
          ELSE <<aggregated_field(Head(fields), field_values(summaries, Head(fields)),
                                  metric)>>)
         \o aggregated_stats(Tail(fields), summaries, metric)

\* The body /lineup returns once the aggregation is done.
LineupResponse(names, metric, summaries) ==
    [lineup_players |-> names, aggregation_metric |-> metric,
     aggregated_stats_from_latest_season_summary |->
         aggregated_stats(numeric_fields, summaries, metric)]

\* POST /lineup after the loop, were the numeric fields listed without
\* failure: 500 for no summary at all, else the aggregate.
lineup_answer_aggregating(st) ==
    Outcome(IF st.answer # None THEN st.answer
            ELSE IF st.summaries = <<>>
            THEN HTTPException(500, "Could not retrieve any summary stats for the lineup players.", FALSE)
            ELSE Ok(LineupResponse(st.names, st.metric, st.summaries)),
            st.cache_id, st.cache_name, st.cache_data, st.fetches, st.listings)

\* POST /lineup after the loop.  The handler reads f.name of every pydantic
\* FieldInfo of PlayerStatsSummary.model_fields; FieldInfo has no attribute
\* `name`, so for a lineup that is not empty the handler raises AttributeError
\* there, outside any try, and the server answers 500.
lineup_answer(st) ==
    Outcome(IF st.answer # None THEN st.answer
            ELSE IF st.summaries = <<>>
            THEN HTTPException(500, "Could not retrieve any summary stats for the lineup players.", FALSE)
            ELSE HTTPException(500, "Internal Server Error", FALSE),
            st.cache_id, st.cache_name, st.cache_data, st.fetches, st.listings)

\* POST /lineup
get_lineup_stats(c, players, metric) ==
    lineup_answer(lineup_loop(players,
        [answer |-> None, cache_id |-> c.cache_id, cache_name |-> c.cache_name,
         cache_data |-> c.cache_data, fetches |-> <<>>, listings |-> 0,
         summaries |-> <<>>, names |-> <<>>, metric |-> metric]))

\* --------------------------------------------------------- recommendations
\* CATEGORY_MAP: per category code, the field it reads, the model holding the
\* field and whether a higher value is better.
CATEGORY_MAP ==
    <<
      [code |-> <<"P", "T", "S">>, field |-> "pts_per_game",
       model |-> "BasicStatsModel", higher_is_better |-> TRUE],
      [code |-> <<"R", "E", "B">>, field |-> "reb_per_game",
       model |-> "BasicStatsModel", higher_is_better |-> TRUE],
      [code |-> <<"A", "S", "T">>, field |-> "ast_per_game",
       model |-> "BasicStatsModel", higher_is_better |-> TRUE],
      [code |-> <<"S", "T", "L">>, field |-> "stl_per_game",
       model |-> "BasicStatsModel", higher_is_better |-> TRUE],
      [code |-> <<"B", "L", "K">>, field |-> "blk_per_game",
       model |-> "BasicStatsModel", higher_is_better |-> TRUE],
      [code |-> <<"F", "G", "3", "M">>, field |-> "fg3m_per_game",
       model |-> "BasicStatsModel", higher_is_better |-> TRUE],
      [code |-> <<"T", "O", "V">>, field |-> "tov_per_game",
       model |-> "BasicStatsModel", higher_is_better |-> FALSE],
      [code |-> <<"F", "G", "_", "P", "C", "T">>, field |-> "fg_pct",
       model |-> "BasicStatsModel", higher_is_better |-> TRUE],
      [code |-> <<"F", "T", "_", "P", "C", "T">>, field |-> "ft_pct",
       model |-> "BasicStatsModel", higher_is_better |-> TRUE],
      [code |-> <<"G", "P">>, field |-> "gp",
       model |-> "BasicStatsModel", higher_is_better |-> TRUE],
      [code |-> <<"M", "I", "N">>, field |-> "min_per_game",
       model |-> "BasicStatsModel", higher_is_better |-> TRUE],
      [code |-> <<"T", "S", "_", "P", "C", "T">>, field |-> "ts_pct",
       model |-> "AdvancedStatsModel", higher_is_better |-> TRUE],
      [code |-> <<"U", "S", "G", "_", "P", "C", "T">>, field |-> "usg_pct",
       model |-> "AdvancedStatsModel", higher_is_better |-> TRUE],
      [code |-> <<"W", "S">>, field |-> "ws",
       model |-> "AdvancedStatsModel", higher_is_better |-> TRUE],
      [code |-> <<"P", "I", "E">>, field |-> "pie",
       model |-> "AdvancedStatsModel", higher_is_better |-> TRUE],
      [code |-> <<"O", "F", "F", "_", "R", "A", "T", "I", "N", "G">>, field |-> "off_rating",
       model |-> "AdvancedStatsModel", higher_is_better |-> TRUE],
      [code |-> <<"D", "E", "F", "_", "R", "A", "T", "I", "N", "G">>, field |-> "def_rating",
       model |-> "AdvancedStatsModel", higher_is_better |-> TRUE],
      [code |-> <<"N", "E", "T", "_", "R", "A", "T", "I", "N", "G">>, field |-> "net_rating",
       model |-> "AdvancedStatsModel", higher_is_better |-> TRUE],
      [code |-> <<"A", "S", "T", "_", "P", "C", "T">>, field |-> "ast_pct",
       model |-> "AdvancedStatsModel", higher_is_better |-> TRUE],
      [code |-> <<"R", "E", "B", "_", "P", "C", "T">>, field |-> "reb_pct",
       model |-> "AdvancedStatsModel", higher_is_better |-> TRUE]
    >>

MIN_GAMES_PLAYED_THRESHOLD == 10
\* 15.0, in thousandths
MIN_MINUTES_PER_GAME_THRESHOLD == 15000

FG_PCT == <<"F", "G", "_", "P", "C", "T">>
FT_PCT == <<"F", "T", "_", "P", "C", "T">>
FG3_PCT == <<"F", "G", "3", "_", "P", "C", "T">>
TOV == <<"T", "O", "V">>
PER_GAME == <<"_", "P", "E", "R", "_", "G", "A", "M", "E">>

\* `cat_name in CATEGORY_MAP` and CATEGORY_MAP[cat_name]
in_category_map(cat_name) == \E i \in DOMAIN CATEGORY_MAP : CATEGORY_MAP[i].code = cat_name
category_of(cat_name) ==
    CATEGORY_MAP[CHOOSE i \in DOMAIN CATEGORY_MAP : CATEGORY_MAP[i].code = cat_name]

\* The normalized form of a requested category code.
normalized(cat_name_req) ==
    LET cat_name == str_replace(str_remove(str_upper(cat_name_req), PER_GAME), "3", "3")
    IN  IF cat_name = FG3_PCT THEN FG3_PCT
        ELSE IF str_in(FG_PCT, cat_name) THEN FG_PCT
        ELSE IF str_in(FT_PCT, cat_name) THEN FT_PCT
        ELSE cat_name

\* d[key] = value on a dict kept as the sequence of its items in insertion
\* order: a key already there keeps its place and takes the new value.
dict_set(d, key, value) ==
    IF \E i \in DOMAIN d : d[i][1] = key
    THEN [i \in DOMAIN d |-> IF d[i][1] = key THEN <<key, value>> ELSE d[i]]
    ELSE Append(d, <<key, value>>)

\* The value read for a category: getattr of the field on basic_stats or on
\* advanced_stats, None when the model instance is missing.
category_stat_value(category, basic_stats, advanced_stats) ==
    IF category.model = "BasicStatsModel" /\ truth(basic_stats) = "True"
    THEN basic_stats[category.field]
    ELSE IF category.model = "AdvancedStatsModel" /\ truth(advanced_stats) = "True"
    THEN advanced_stats[category.field]
    ELSE None

\* category_score_contribution in millionths.  The percentages are weighted
\* by the attempts per game when these are above zero; turnovers count
\* against the player.  Decimal arithmetic is exact here.
category_score_contribution(cat_name, stat_value, basic_stats) ==
    IF cat_name = FG_PCT /\ truth(basic_stats.fga_per_game) = "True"
       /\ thousandths(basic_stats.fga_per_game) > 0
    THEN (thousandths(stat_value) * thousandths(basic_stats.fga_per_game)) \div 10
    ELSE IF cat_name = FT_PCT /\ truth(basic_stats.fta_per_game) = "True"
            /\ thousandths(basic_stats.fta_per_game) > 0
    THEN (thousandths(stat_value) * thousandths(basic_stats.fta_per_game)) \div 10
    ELSE IF cat_name = TOV THEN 0 - 1000 * thousandths(stat_value)
    ELSE 1000 * thousandths(stat_value)

\* A negation for every category where lower is better, turnovers included:
\* the turnovers are then negated twice.
signed_contribution_every(cat_name, category, contribution) ==
    IF ~category.higher_is_better THEN 0 - contribution ELSE contribution

\* `if not higher_is_better and cat_name != "TOV"`: the contribution is negated.
signed_contribution(cat_name, category, contribution) ==
    IF ~category.higher_is_better /\ cat_name # TOV THEN 0 - contribution ELSE contribution

\* A loop body that leaves no entry for a category whose stat is null.
score_known_unrecorded(cat_name_req, cat_name, stat_value, basic_stats, st) ==
    IF stat_value = None THEN st
    ELSE [total |-> st.total
                    + signed_contribution(cat_name, category_of(cat_name),
                          category_score_contribution(cat_name, stat_value, basic_stats)),
          stats |-> dict_set(st.stats, cat_name_req, stat_value)]

\* One iteration of `for cat_name_req in target_categories` on
\* st = [total, stats]: the score so far in millionths and
\* targeted_category_stats_dict.
score_known(cat_name_req, cat_name, stat_value, basic_stats, st) ==
    IF stat_value = None
    THEN [st EXCEPT !.stats = dict_set(st.stats, cat_name_req, None)]
    ELSE [total |-> st.total
                    + signed_contribution(cat_name, category_of(cat_name),
                          category_score_contribution(cat_name, stat_value, basic_stats)),
          stats |-> dict_set(st.stats, cat_name_req, stat_value)]

\* A loop body that passes over a category it does not know without a trace.
score_step_unrecorded(cat_name_req, cat_name, basic_stats, advanced_stats, st) ==
    IF ~in_category_map(cat_name) THEN st
    ELSE score_known(cat_name_req, cat_name,
             category_stat_value(category_of(cat_name), basic_stats, advanced_stats),
             basic_stats, st)

score_step(cat_name_req, cat_name, basic_stats, advanced_stats, st) ==
    IF ~in_category_map(cat_name)
    THEN [st EXCEPT !.stats = dict_set(st.stats, cat_name_req, None)]
    ELSE score_known(cat_name_req, cat_name,
             category_stat_value(category_of(cat_name), basic_stats, advanced_stats),
             basic_stats, st)

RECURSIVE score_loop(_, _, _, _)
score_loop(target_categories, basic_stats, advanced_stats, st) ==
    IF target_categories = <<>> THEN st
    ELSE score_loop(Tail(target_categories), basic_stats, advanced_stats,
             score_step(Head(target_categories), normalized(Head(target_categories)),
                        basic_stats, advanced_stats, st))

\* round(x, 2) of a number of millionths, ties to even, as thousandths.
round_score(total) ==
    LET q == total \div 10000
        r == total % 10000
    IN  IF 2 * r < 10000 THEN 10 * q
        ELSE IF 2 * r > 10000 THEN 10 * (q + 1)
        ELSE IF q % 2 = 0 THEN 10 * q ELSE 10 * (q + 1)

\* `not bundle or not bundle.get("historical_regular_seasons") or not
\* bundle["historical_regular_seasons"][-1].basic_stats`
no_latest_basic_stats(player_data_bundle) ==
    \/ player_data_bundle = None
    \/ ~list_truth(player_data_bundle.historical_regular_seasons)
    \/ truth(player_data_bundle.historical_regular_seasons[
                 Len(player_data_bundle.historical_regular_seasons)].basic_stats) # "True"

RecommendedPlayer(full_name, latest_season_data, st) ==
    [t |-> "RecommendedPlayer",
     player_id |-> IF latest_season_data.basic_stats.gp # None
                   THEN latest_season_data.basic_stats.gp ELSE IntV(0),
     full_name |-> full_name,
     recommendation_score |-> FloatV(round_score(st.total)),
     targeted_category_stats |-> st.stats,
     latest_season_summary_brief |->
         [GP |-> latest_season_data.basic_stats.gp,
          MIN |-> latest_season_data.basic_stats.min_per_game,
          PTS |-> latest_season_data.basic_stats.pts_per_game,
          REB |-> latest_season_data.basic_stats.reb_per_game,
          AST |-> latest_season_data.basic_stats.ast_per_game,
          Team |-> latest_season_data.team_abbreviation]]

\* A RecommendedPlayer, or None for a bundle without latest basic stats.
calculate_heuristic_score_for_player(player_data_bundle, target_categories, player_full_name) ==
    IF no_latest_basic_stats(player_data_bundle) THEN None
    ELSE RecommendedPlayer(player_full_name,
             player_data_bundle.historical_regular_seasons[
                 Len(player_data_bundle.historical_regular_seasons)],
             score_loop(target_categories,
                 player_data_bundle.historical_regular_seasons[
                     Len(player_data_bundle.historical_regular_seasons)].basic_stats,
                 player_data_bundle.historical_regular_seasons[
                     Len(player_data_bundle.historical_regular_seasons)].advanced_stats,
                 [total |-> 0, stats |-> <<>>]))

\* What get_player_data_from_nba_api gives the recommendation handler for a
\* pool player.  patched is None, or the bundles the function is replaced
\* with (bundles.get(player_id), no cache, no fetch) and the ids it raises for.
pool_player_data(patched, cache, player_id) ==
    IF patched = None
    THEN get_player_data_from_nba_api(cache, player_id, TRUE, FALSE, TRUE, TRUE)
    ELSE [exc |-> IF player_id \in patched.raising THEN "Exception" ELSE NoExc,
          value |-> IF player_id \in DOMAIN patched.bundles
                    THEN patched.bundles[player_id] ELSE None,
          fetches |-> <<>>, hit |-> FALSE, cache |-> cache]

\* Thresholds a player has to exceed.
exceeds_thresholds(gp, mpg) ==
    /\ truth(gp) = "True" /\ truth(mpg) = "True"
    /\ thousandths(gp) > 1000 * MIN_GAMES_PLAYED_THRESHOLD
    /\ thousandths(mpg) > MIN_MINUTES_PER_GAME_THRESHOLD

\* `gp and mpg and gp >= MIN_GAMES_PLAYED_THRESHOLD and mpg >=
\* MIN_MINUTES_PER_GAME_THRESHOLD`
meets_thresholds(gp, mpg) ==
    /\ truth(gp) = "True" /\ truth(mpg) = "True"
    /\ thousandths(gp) >= 1000 * MIN_GAMES_PLAYED_THRESHOLD
    /\ thousandths(mpg) >= MIN_MINUTES_PER_GAME_THRESHOLD

\* The candidate a scored pool player becomes, with the actual id.
candidate_of(player_id, recommended_player_obj) ==
    [recommended_player_obj EXCEPT !.player_id = IntV(player_id)]

\* The body of the try block for one pool player whose bundle is r.value:
\* the candidates after it.
pool_player_scored(candidates, p_dict, bundle, obj) ==
    IF obj # None THEN Append(candidates, candidate_of(p_dict.id, obj)) ELSE candidates

pool_player_checked(candidates, p_dict, bundle, target_categories) ==
    IF no_latest_basic_stats(bundle) THEN candidates
    ELSE IF ~meets_thresholds(
                 bundle.historical_regular_seasons[
                     Len(bundle.historical_regular_seasons)].basic_stats.gp,
                 bundle.historical_regular_seasons[
                     Len(bundle.historical_regular_seasons)].basic_stats.min_per_game)
    THEN candidates
    ELSE pool_player_scored(candidates, p_dict, bundle,
             calculate_heuristic_score_for_player(bundle, target_categories,
                                                  p_dict.full_name))

\* One iteration of `for p_dict in active_players_raw` on
\* st = [cache_data, fetches, candidates].  An exception inside the try block
\* is printed and the player is passed over.
pool_player_fetched(st, p_dict, r, target_categories) ==
    [cache_data |-> r.cache,
     fetches |-> st.fetches \o fetches_of(p_dict.id, r),
     candidates |-> IF r.exc # NoExc THEN st.candidates
                    ELSE pool_player_checked(st.candidates, p_dict, r.value,
                                             target_categories)]

pool_step(st, p_dict, patched, request_body) ==
    IF \E i \in DOMAIN request_body.excluded_player_ids :
           request_body.excluded_player_ids[i] = p_dict.id
    THEN st
    ELSE pool_player_fetched(st, p_dict,
             pool_player_data(patched, st.cache_data, p_dict.id),
             request_body.target_categories)

RECURSIVE pool_loop_until_error(_, _, _, _)
\* A loop that an exception ends: the players after the one that raised are
\* not processed.
pool_loop_until_error(active_players_raw, st, patched, request_body) ==
    IF active_players_raw = <<>> THEN st
    ELSE IF pool_player_data(patched, st.cache_data, Head(active_players_raw).id).exc # NoExc
    THEN st
    ELSE pool_loop_until_error(Tail(active_players_raw),
                   pool_step(st, Head(active_players_raw), patched, request_body),
                   patched, request_body)

RECURSIVE pool_loop(_, _, _, _)
pool_loop(active_players_raw, st, patched, request_body) ==
    IF active_players_raw = <<>> THEN st
    ELSE pool_loop(Tail(active_players_raw),
                   pool_step(st, Head(active_players_raw), patched, request_body),
                   patched, request_body)

\* An ordering that puts a candidate before those of equal score: ties do
\* not keep the pool order.
insert_before_ties(l, p) ==
    LET k == Cardinality({i \in DOMAIN l :
                 l[i].recommendation_score.v > p.recommendation_score.v})
    IN  SubSeq(l, 1, k) \o <<p>> \o SubSeq(l, k + 1, Len(l))

\* The place a stable descending sort gives p in the sorted list l of the
\* candidates before it: after every candidate whose score is not lower.
insert_by_score(l, p) ==
    LET k == Cardinality({i \in DOMAIN l :
                 l[i].recommendation_score.v >= p.recommendation_score.v})
    IN  SubSeq(l, 1, k) \o <<p>> \o SubSeq(l, k + 1, Len(l))

RECURSIVE sort_by_score(_, _)
\* candidate_players.sort(key=lambda p: p.recommendation_score, reverse=True):
\* list.sort is stable, also with reverse=True.
sort_by_score(candidate_players, sorted_so_far) ==
    IF candidate_players = <<>> THEN sorted_so_far
    ELSE sort_by_score(Tail(candidate_players),
                       insert_by_score(sorted_so_far, Head(candidate_players)))

\* candidate_players[:n]
first_n(l, n) == SubSeq(l, 1, IF n < Len(l) THEN n ELSE Len(l))

recommendations_answer(c, st, num_recommendations) ==
    Outcome(Ok([recommendations |->
                    first_n(sort_by_score(st.candidates, <<>>), num_recommendations)]),
            c.cache_id, c.cache_name, st.cache_data, st.fetches, 0)

\* POST /recommendations/categories
get_category_recommendations(c, active_players_raw, patched, request_body) ==
    recommendations_answer(c,
        pool_loop(active_players_raw,
                  [cache_data |-> c.cache_data, fetches |-> <<>>, candidates |-> <<>>],
                  patched, request_body),
        request_body.num_recommendations)

\* ------------------------------------------------------------ environment
PlayerIds == {players_get_players[i].id : i \in DOMAIN players_get_players}

RowEntries == Combos \X SeasonIds
SeqsUpTo(S, n) == UNION {[1..k -> S] : k \in 0..n}

RECURSIVE seasons_of(_, _)
\* The season identifiers of the entries of one combination, in order.
seasons_of(entries, combo) ==
    IF entries = <<>> THEN <<>>
    ELSE (IF Head(entries)[1] = combo THEN <<Head(entries)[2]>> ELSE <<>>)
         \o seasons_of(Tail(entries), combo)

ProviderData(entries, careers) ==
    [c \in Combos |-> [seasons |-> seasons_of(entries, c), career |-> c \in careers]]

\* The provider holds nothing for player 2 and the same tables for the others.
ProviderFor(data) == [p \in PlayerIds |-> IF p = 2 THEN NoData ELSE data]

\* -------------------------------------------------------------- behaviour
\* Reconciliation as a function of the provider's data: the provider holds
\* any tables within the bounds, at most one combination fails, and the
\* function is applied once.
InitRecon ==
    /\ \E entries \in SeqsUpTo(RowEntries, MaxRowsTotal), careers \in SUBSET Combos :
          /\ Len(entries) + Cardinality(careers) <= MaxRowsTotal
          /\ upstream = ProviderFor(ProviderData(entries, careers))
    /\ failing \in Combos \cup {NoCombo}
    /\ cache_id = <<>> /\ cache_name = <<>> /\ cache_data = <<>>
    /\ call = None /\ resp = None /\ handled = 0
    /\ look = None /\ recency = <<>>
    /\ usage_log = <<>>
    /\ log_fails = FALSE /\ active = players_get_players /\ patch = None /\ inflight = <<>>

\* The call has ended with outcome r: call keeps its arguments and r.
Called(player_id, fr, fp, fb, fa, r) ==
    /\ call' = [player_id |-> player_id, fetch_regular_season |-> fr,
                fetch_playoffs |-> fp, fetch_basic |-> fb, fetch_advanced |-> fa,
                exc |-> r.exc, value |-> r.value, fetches |-> r.fetches]
    /\ cache_data' = r.cache

CallRecon(player_id, fr, fp, fb, fa) ==
    /\ call = None
    /\ Called(player_id, fr, fp, fb, fa,
              get_player_data_from_nba_api(cache_data, player_id, fr, fp, fb, fa))
    /\ UNCHANGED <<inflight, log_fails, active, patch, upstream, failing, cache_id, cache_name, resp, handled, look, recency,
                   usage_log>>

NextRecon ==
    \E player_id \in {1, 2}, fr \in BOOLEAN, fp \in BOOLEAN, fb \in BOOLEAN, fa \in BOOLEAN :
        CallRecon(player_id, fr, fp, fb, fa)

SpecRecon == InitRecon /\ [][NextRecon]_vars

\* The requests the endpoints are given: a name that resolves to player 1, a
\* name that resolves to player 2 (for whom the provider holds nothing) and a
\* name that does not resolve; filters in several letter cases and filters
\* that select nothing.
NameLJ == <<"l", "-", "j">>
NameSC == <<"S", " ", "C">>
NameX == <<"x">>
Names == {NameLJ, NameSC, NameX}
PlayerFilters ==
    {<<<<"r", "e", "g", "u", "l", "a", "r">>, <<"B", "a", "s", "i", "c">>>>, <<<<"P", "l", "a", "y", "o", "f", "f", "s">>, <<"a", "d", "v", "a", "n", "c", "e", "d">>>>, <<<<"A", "L", "L">>, <<"a", "L", "L">>>>,
     <<<<"x">>, <<"a", "L", "L">>>>, <<<<"A", "L", "L">>, <<"x">>>>, <<<<"x">>, <<"x">>>>}
\* An unknown name is asked for with stats_mode aLL only.
PlayerInputs ==
    {i \in Names \X PlayerFilters : i[1] # NameX \/ i[2][2] = <<"a", "L", "L">>}
ComparePairs ==
    {<<NameLJ, NameSC>>, <<NameSC, NameX>>, <<NameX, NameSC>>, <<NameLJ, NameX>>}
CompareFilters == {<<<<"r", "e", "g", "u", "l", "a", "r">>, <<"a", "L", "L">>>>, <<<<"x">>, <<"a", "L", "L">>>>, <<<<"A", "L", "L">>, <<"x">>>>}
Lineups ==
    {<<>>, <<NameLJ>>, <<NameSC, NameX>>, <<NameLJ, NameX>>, <<NameX, NameSC>>}
Metrics == {<<"a", "v", "g">>, <<"t", "o", "t", "a", "l">>}

\* The tables the provider holds behind the endpoints: nothing; a career row
\* only; one basic-mode season; two seasons in both modes, latest first, with
\* career rows.
EndpointData ==
    {ProviderData(<<>>, {}),
     ProviderData(<<>>, {<<PerGame, RegularSeason>>}),
     ProviderData(<<<<<<PerGame, RegularSeason>>, 1>>>>, {}),
     ProviderData(<<<<<<PerGame, RegularSeason>>, 2>>, <<<<PerGame, RegularSeason>>, 1>>,
                    <<<<Advanced, RegularSeason>>, 2>>, <<<<Advanced, RegularSeason>>, 1>>>>,
                  {<<PerGame, RegularSeason>>, <<Advanced, RegularSeason>>})}

\* Category codes as they are requested.
PTS == <<"P", "T", "S">>
pts_per_game == <<"p", "t", "s", "_", "p", "e", "r", "_", "g", "a", "m", "e">>
RecommendationRequest(target_categories, num_recommendations, excluded_player_ids) ==
    [target_categories |-> target_categories, num_recommendations |-> num_recommendations,
     excluded_player_ids |-> excluded_player_ids]
RecommendationRequests ==
    {RecommendationRequest(<<PTS>>, 5, <<>>),
     RecommendationRequest(<<pts_per_game, TOV>>, 1, <<2>>)}

Caches == [cache_id |-> cache_id, cache_name |-> cache_name, cache_data |-> cache_data]

\* A call of log_usage that inserts nothing.
log_usage_no_row(fails, log, endpoint, payload) == [exc |-> NoExc, log |-> log]

\* log_usage: one row (timestamp, endpoint, payload) is inserted and
\* committed; the timestamp is the reading of utcnow.  Nothing catches an
\* error of sqlite3: when the store fails, the call raises and no row is kept.
log_usage(fails, log, endpoint, payload) ==
    IF fails THEN [exc |-> "sqlite3.Error", log |-> log]
    ELSE [exc |-> NoExc,
          log |-> Append(log, [timestamp |-> "utcnow", endpoint |-> endpoint,
                               payload |-> payload])]

\* f"{name}?season_type={season_type}&stats_mode={stats_mode}"
player_payload(name, season_type, stats_mode) ==
    name \o <<"?", "s", "e", "a", "s", "o", "n", "_", "t", "y", "p", "e", "=">> \o season_type
         \o <<"&", "s", "t", "a", "t", "s", "_", "m", "o", "d", "e", "=">> \o stats_mode

\* f"{player1_name} vs {player2_name} (season: {season_type}, mode: {stats_mode})"
compare_payload(player1_name, player2_name, season_type, stats_mode) ==
    player1_name \o <<" ", "v", "s", " ">> \o player2_name
        \o <<" ", "(", "s", "e", "a", "s", "o", "n", ":", " ">> \o season_type
        \o <<",", " ", "m", "o", "d", "e", ":", " ">> \o stats_mode \o <<")">>

\* repr of a list of strings: ['a', 'b'].
RECURSIVE repr_items(_)
repr_items(l) ==
    IF l = <<>> THEN <<>>
    ELSE <<"'">> \o Head(l) \o <<"'">>
         \o (IF Tail(l) = <<>> THEN <<>> ELSE <<",", " ">>) \o repr_items(Tail(l))
repr_list(l) == <<"[">> \o repr_items(l) \o <<"]">>

\* f"Players: {request.players}, Metric: {metric}"
lineup_payload(players, metric) ==
    <<"P", "l", "a", "y", "e", "r", "s", ":", " ">> \o repr_list(players)
        \o <<",", " ", "M", "e", "t", "r", "i", "c", ":", " ">> \o metric

\* Python's int to str, for 0..99.
int_str(n) ==
    IF n < 10 THEN <<Digit[n + 1]>> ELSE <<Digit[(n \div 10) + 1], Digit[(n % 10) + 1]>>

\* The JSON text of a list of strings and of a list of ints, compact.
RECURSIVE json_strs(_)
json_strs(l) ==
    IF l = <<>> THEN <<>>
    ELSE <<"\"">> \o Head(l) \o <<"\"">>
         \o (IF Tail(l) = <<>> THEN <<>> ELSE <<",">>) \o json_strs(Tail(l))
RECURSIVE json_ints(_)
json_ints(l) ==
    IF l = <<>> THEN <<>>
    ELSE int_str(Head(l)) \o (IF Tail(l) = <<>> THEN <<>> ELSE <<",">>) \o json_ints(Tail(l))

\* request_body.model_dump_json()
model_dump_json(request_body) ==
    <<"{", "\"", "t", "a", "r", "g", "e", "t", "_", "c", "a", "t", "e", "g", "o", "r",
      "i", "e", "s", "\"", ":", "[">> \o json_strs(request_body.target_categories)
    \o <<"]", ",", "\"", "n", "u", "m", "_", "r", "e", "c", "o", "m", "m", "e", "n", "d",
         "a", "t", "i", "o", "n", "s", "\"", ":">>
    \o int_str(request_body.num_recommendations)
    \o <<",", "\"", "e", "x", "c", "l", "u", "d", "e", "d", "_", "p", "l", "a", "y", "e",
         "r", "_", "i", "d", "s", "\"", ":", "[">>
    \o json_ints(request_body.excluded_player_ids) \o <<"]", "}">>

\* The answer of the server to a request whose handler raised an exception
\* that is not an HTTPException.
InternalServerError == HTTPException(500, "Internal Server Error", FALSE)

\* A handler has run on logged, the outcome of its first statement, the call
\* of log_usage.  When that call raised, nothing else of the handler ran and
\* the caches are as they were; otherwise the answer is the one of the rest
\* of the handler, o, and the caches are those it leaves.
Handled(endpoint, request, logged, o) ==
    /\ handled < MaxRequests
    /\ handled' = handled + 1
    /\ usage_log' = logged.log
    /\ resp' = IF logged.exc # NoExc
               THEN [endpoint |-> endpoint, request |-> request,
                     answer |-> InternalServerError, fetches |-> <<>>, listings |-> 0]
               ELSE [endpoint |-> endpoint, request |-> request, answer |-> o.answer,
                     fetches |-> o.fetches, listings |-> o.listings]
    /\ cache_id' = IF logged.exc # NoExc THEN cache_id ELSE o.cache_id
    /\ cache_name' = IF logged.exc # NoExc THEN cache_name ELSE o.cache_name
    /\ cache_data' = IF logged.exc # NoExc THEN cache_data ELSE o.cache_data
    /\ UNCHANGED <<inflight, log_fails, active, patch, upstream, failing, call, look, recency>>

Handle(endpoint, request, payload, o) ==
    Handled(endpoint, request, log_usage(log_fails, usage_log, endpoint, payload), o)

PlayerRequest(name, season_type, stats_mode) ==
    Handle("/player",
           [name |-> name, season_type |-> season_type, stats_mode |-> stats_mode],
           player_payload(name, season_type, stats_mode),
           get_player_profile(Caches, name, season_type, stats_mode))

CompareRequest(player1_name, player2_name, season_type, stats_mode) ==
    Handle("/compare",
           [player1 |-> player1_name, player2 |-> player2_name,
            season_type |-> season_type, stats_mode |-> stats_mode],
           compare_payload(player1_name, player2_name, season_type, stats_mode),
           compare_players(Caches, player1_name, player2_name, season_type, stats_mode))

LineupRequest(players, metric) ==
    Handle("/lineup", [players |-> players, metric |-> metric],
           lineup_payload(players, metric),
           get_lineup_stats(Caches, players, metric))

RecommendRequest(request_body) ==
    Handle("/recommendations/categories", request_body, model_dump_json(request_body),
           get_category_recommendations(Caches, active, patch, request_body))

\* The app has started: nothing is cached or logged, no request has come.
\* Every player of the directory is active.
Started ==
    /\ \E data \in EndpointData : upstream = ProviderFor(data)
    /\ failing \in {NoCombo, <<Advanced, RegularSeason>>}
    /\ cache_id = <<>> /\ cache_name = <<>> /\ cache_data = <<>>
    /\ call = None /\ resp = None /\ handled = 0
    /\ look = None /\ recency = <<>>
    /\ usage_log = <<>>
    /\ active = players_get_players /\ patch = None /\ inflight = <<>>

Init == Started /\ log_fails = FALSE

Next ==
    \/ \E i \in PlayerInputs : PlayerRequest(i[1], i[2][1], i[2][2])
    \/ \E p \in ComparePairs, f \in CompareFilters : CompareRequest(p[1], p[2], f[1], f[2])
    \/ \E players \in Lineups, metric \in Metrics : LineupRequest(players, metric)
    \/ \E request_body \in RecommendationRequests : RecommendRequest(request_body)

Spec == Init /\ [][Next]_vars

\* The same app over a usage_log store that works or fails (a database file
\* that cannot be opened or written, a locked database).
InitLog == Started /\ log_fails \in BOOLEAN
SpecLog == InitLog /\ [][Next]_vars

\* ------------------------------------------- reconciliation: the claims
\* What one call was given: whether it asked for a season type and a mode,
\* the tables of the combinations it asked for and whose fetch did not raise.
Requested(c, st) ==
    IF st = RegularSeason THEN c.fetch_regular_season ELSE c.fetch_playoffs
ModeRequested(c, mode) ==
    IF mode = PerGame THEN c.fetch_basic ELSE c.fetch_advanced
Fetched(c, mode, st) ==
    Requested(c, st) /\ ModeRequested(c, mode) /\ failing # <<mode, st>>
TableSeasons(c, mode, st) ==
    IF Fetched(c, mode, st) THEN upstream[c.player_id][<<mode, st>>].seasons ELSE <<>>
TableIds(c, mode, st) ==
    {TableSeasons(c, mode, st)[i] : i \in DOMAIN TableSeasons(c, mode, st)}
CareerRowPresent(c, mode, st) ==
    Fetched(c, mode, st) /\ upstream[c.player_id][<<mode, st>>].career

\* What the call gave back: the records of a season type's list (none when
\* the list is null or the call raised) and its career record.
ResultList(c, st) ==
    IF c.exc # NoExc THEN None
    ELSE IF st = RegularSeason THEN c.value.historical_regular_seasons
    ELSE c.value.historical_playoff_seasons
ResultRecords(c, st) == IF ResultList(c, st) = None THEN <<>> ELSE ResultList(c, st)
ResultCareer(c, st) ==
    IF c.exc # NoExc THEN None
    ELSE IF st = RegularSeason THEN c.value.career_regular_season
    ELSE c.value.career_playoffs

IsSorted(l) == \A i \in DOMAIN l : \A j \in DOMAIN l : i < j => l[i].season_id <= l[j].season_id

\* C1: for each requested season type the season identifiers of the
\* reconciled list are the union of those of the basic-mode and the
\* advanced-mode table, and each record has basic_stats exactly when its season
\* is in the basic-mode table and advanced_stats exactly when it is in the
\* advanced-mode table.
C1_SeasonUnion ==
    call # None =>
        \A st \in SeasonTypes :
            Requested(call, st) =>
                LET l == ResultRecords(call, st)
                IN  /\ {l[i].season_id : i \in DOMAIN l}
                         = TableIds(call, PerGame, st) \cup TableIds(call, Advanced, st)
                    /\ \A i \in DOMAIN l :
                          /\ (l[i].basic_stats # None)
                                <=> (l[i].season_id \in TableIds(call, PerGame, st))
                          /\ (l[i].advanced_stats # None)
                                <=> (l[i].season_id \in TableIds(call, Advanced, st))

\* C2: whatever the order of the upstream rows, the call returns, and its
\* regular-season list and its playoff list are non-decreasing by season
\* identifier.
C2_SortedLists ==
    call # None =>
        /\ call.exc = NoExc
        /\ \A st \in SeasonTypes : IsSorted(ResultRecords(call, st))

\* The season identifiers of the tables whose fetch did not raise: what the
\* list holds when the failing combination is taken to have returned no rows.
C3_ExpectedIds(c, st) == TableIds(c, PerGame, st) \cup TableIds(c, Advanced, st)

\* C3: when the fetch of one combination raises, the call still returns a
\* result, no error reaches the caller, and the slices built from the other
\* combinations are those of the provider's data with that combination empty.
C3_FetchFailureDegrades ==
    (call # None /\ failing # NoCombo /\ failing \in
        {<<m, st>> : m \in {x \in Modes : ModeRequested(call, x)},
                     st \in {y \in SeasonTypes : Requested(call, y)}}) =>
        /\ call.exc = NoExc
        /\ \A st \in SeasonTypes :
              {ResultRecords(call, st)[i].season_id : i \in DOMAIN ResultRecords(call, st)}
                 = C3_ExpectedIds(call, st)

\* C4: for each season type the career record of the result is non-null
\* exactly when the basic-mode or the advanced-mode career-total table of a
\* requested, successful fetch has a row, and then each field is populated
\* exactly when its table has a row.
C4_CareerPresence ==
    call # None =>
        \A st \in SeasonTypes :
            LET career == ResultCareer(call, st)
                b == CareerRowPresent(call, PerGame, st)
                a == CareerRowPresent(call, Advanced, st)
            IN  /\ (career # None) <=> (a \/ b)
                /\ career # None =>
                      /\ (career.basic_stats # None) <=> b
                      /\ (career.advanced_stats # None) <=> a

\* C6: one call issues exactly one fetch for each requested combination and
\* none for any other, and the list and career record of a season type that
\* was not requested are null.
C6_OneFetchPerCombination ==
    call # None =>
        /\ \A m \in Modes, st \in SeasonTypes :
              Cardinality({i \in DOMAIN call.fetches : call.fetches[i] = <<m, st>>})
                 = IF Requested(call, st) /\ ModeRequested(call, m) THEN 1 ELSE 0
        /\ \A st \in SeasonTypes :
              (call.exc = NoExc /\ ~Requested(call, st)) =>
                  (ResultList(call, st) = None /\ ResultCareer(call, st) = None)

\* ------------------------------------------------ endpoints: the claims
\* The names a request supplies, and whether one resolves in the directory.
SuppliedNames(r) ==
    IF r.endpoint = "/player" THEN {r.request.name}
    ELSE IF r.endpoint = "/compare" THEN {r.request.player1, r.request.player2}
    ELSE IF r.endpoint = "/lineup"
    THEN {r.request.players[i] : i \in DOMAIN r.request.players}
    ELSE {}
Resolves(name) ==
    \E i \in DOMAIN players_get_players :
        str_lower(players_get_players[i].full_name) = str_replace(str_lower(name), "-", " ")
ResolvedId(name) ==
    players_get_players[CHOOSE i \in DOMAIN players_get_players :
        str_lower(players_get_players[i].full_name)
            = str_replace(str_lower(name), "-", " ")].id

\* A filter value in any letter case of one of the words, and a value in
\* which none of the words occurs.
IsOneOf(value, words) == str_lower(value) \in words
HasNoneOf(value, words) == \A w \in words : ~str_in(w, str_lower(value))

\* The regular-season tables a /player request is answered from: those of the
\* modes it asks for, when it asks for the regular season and the fetch does
\* not raise.
SummaryTable(r, mode, word) ==
    IF /\ ~HasNoneOf(r.request.season_type, {REGULAR, ALL})
       /\ ~HasNoneOf(r.request.stats_mode, {word, ALL})
       /\ failing # <<mode, RegularSeason>>
    THEN upstream[ResolvedId(r.request.name)][<<mode, RegularSeason>>].seasons
    ELSE <<>>
SeqIds(seasons) == {seasons[i] : i \in DOMAIN seasons}
MaxOf(S) == CHOOSE x \in S : \A y \in S : y <= x

\* C5: GET /player gives a null latest_season_summary exactly when the
\* reconciled regular-season list is empty or its last record has no basic
\* stats; otherwise the answer is a 200 whose summary is projected from the
\* record of the highest season identifier, with true_shooting_pct and
\* usage_rate null exactly when that season has no advanced-mode row.
C5_LatestSeasonSummary ==
    (/\ resp # None
     /\ resp.endpoint = "/player"
     /\ Resolves(resp.request.name)
     /\ ~HasNoneOf(resp.request.season_type, {REGULAR, PLAYOFFS, ALL})
     /\ ~HasNoneOf(resp.request.stats_mode, {BASIC, ADVANCED, ALL})) =>
        LET b == SeqIds(SummaryTable(resp, PerGame, BASIC))
            a == SeqIds(SummaryTable(resp, Advanced, ADVANCED))
            summary == resp.answer.body.latest_season_summary
        IN  IF b \cup a = {} \/ MaxOf(b \cup a) \notin b
            THEN resp.answer.status = 200 => summary = None
            ELSE /\ resp.answer.status = 200
                 /\ summary # None
                 /\ (summary.true_shooting_pct # None) <=> (MaxOf(b \cup a) \in a)
                 /\ (summary.usage_rate # None) <=> (MaxOf(b \cup a) \in a)

\* C7: in GET /player, GET /compare and POST /lineup a supplied name that
\* does not resolve in the directory gives a 404 and no body, whatever its
\* position among the supplied names.
C7_UnresolvedNameIs404 ==
    (resp # None /\ \E n \in SuppliedNames(resp) : ~Resolves(n)) =>
        (resp.answer.status = 404 /\ resp.answer.body = None)

\* C8: in GET /player and GET /compare with names that resolve, a season_type
\* in which none of regular, playoffs, all occurs, or a stats_mode in which
\* none of basic, advanced, all occurs, gives a 400 and no upstream fetch; a
\* season_type that is regular, playoffs or all and a stats_mode that is
\* basic, advanced or all, in any letter case, never give a 400.
C8_InvalidFilterIs400 ==
    (/\ resp # None
     /\ resp.endpoint \in {"/player", "/compare"}
     /\ \A n \in SuppliedNames(resp) : Resolves(n)) =>
        /\ (\/ HasNoneOf(resp.request.season_type, {REGULAR, PLAYOFFS, ALL})
            \/ HasNoneOf(resp.request.stats_mode, {BASIC, ADVANCED, ALL}))
              => (resp.answer.status = 400 /\ resp.fetches = <<>>)
        /\ (/\ IsOneOf(resp.request.season_type, {REGULAR, PLAYOFFS, ALL})
            /\ IsOneOf(resp.request.stats_mode, {BASIC, ADVANCED, ALL}))
              => resp.answer.status # 400

\* A request with resolvable names was refused for its filter, and another
\* one, with filters in upper and mixed case, was not.
C8_Witness ==
    /\ resp # None
    /\ resp.endpoint = "/compare"
    /\ resp.answer.status = 400
    /\ resp.request.player1 = NameLJ
    /\ \E i \in DOMAIN cache_data : cache_data[i].key = <<2, TRUE, TRUE, TRUE, TRUE>>

\* C9: for a player who resolves and for whom the provider holds nothing, GET
\* /player with season_type=all and stats_mode=all answers 200 with a null
\* latest_season_summary, null career records and null season lists; and in
\* every reconciliation result a season list is null or not empty.
C9_NoDataIsNull ==
    /\ (/\ resp # None
        /\ resp.endpoint = "/player"
        /\ Resolves(resp.request.name)
        /\ IsOneOf(resp.request.season_type, {ALL})
        /\ IsOneOf(resp.request.stats_mode, {ALL})
        /\ upstream[ResolvedId(resp.request.name)] = NoData) =>
            /\ resp.answer.status = 200
            /\ resp.answer.body.latest_season_summary = None
            /\ resp.answer.body.career_regular_season = None
            /\ resp.answer.body.career_playoffs = None
            /\ resp.answer.body.historical_regular_seasons = None
            /\ resp.answer.body.historical_playoff_seasons = None
    /\ \A i \in DOMAIN cache_data :
          /\ cache_data[i].value.historical_regular_seasons # <<>>
          /\ cache_data[i].value.historical_playoff_seasons # <<>>

\* GET /player?season_type=ALL&stats_mode=aLL has been answered for player 2,
\* for whom the provider holds nothing.
C9_Witness ==
    /\ resp # None
    /\ resp.endpoint = "/player"
    /\ resp.request = [name |-> NameSC, season_type |-> <<"A", "L", "L">>,
                       stats_mode |-> <<"a", "L", "L">>]
    /\ resp.answer.status = 200
    /\ \E i \in DOMAIN cache_data : cache_data[i].key = <<2, TRUE, TRUE, TRUE, TRUE>>

\* ------------------------------------------------- the caches: behaviour
\* One of the three cached functions is called directly, again and again, in
\* one process: each call is for the next key not asked for yet or for the
\* first key once more.
MaxFreshKeys == 130

CacheFns == {"get_player_id", "get_player_name_from_id", "get_player_data_from_nba_api"}

RECURSIVE name_of(_)
name_of(i) ==
    IF i = 0 THEN <<>> ELSE Append(name_of(i \div 2), IF i % 2 = 0 THEN "a" ELSE "b")

\* The keys: names (the first one resolves), player ids (the first three are
\* in the directory), and argument tuples of the reconciliation.
NameKey(i) == IF i = 1 THEN NameLJ ELSE name_of(i)
IdKey(i) == i
CachePlayers == 1 .. ((MaxFreshKeys - 1) \div 16 + 1)
DataKey(i) ==
    LET b == (i - 1) % 16
    IN  <<(((i - 1) \div 16 + 1) % Cardinality(CachePlayers)) + 1,
          b % 2 = 0, (b \div 2) % 2 = 0, (b \div 4) % 2 = 0, (b \div 8) % 2 = 0>>

\* The calls that have returned, without the key k: what recency keeps.
others(k) == SelectSeq(recency, LAMBDA e : e.k # k)
entry_of(k) == recency[CHOOSE j \in DOMAIN recency : recency[j].k = k]
position_of(k) == CHOOSE j \in DOMAIN recency : recency[j].k = k

\* A call for key number k has ended with outcome r = [exc, value, listings,
\* fetches, hit]: look keeps it, with what was known of the key before.
Looked(k, r) ==
    /\ look # None
    /\ k <= MaxFreshKeys
    /\ LET before == \E j \in DOMAIN recency : recency[j].k = k
       IN  /\ look' = [fn |-> look.fn, n |-> IF k > look.n THEN k ELSE look.n, k |-> k,
                       exc |-> r.exc, value |-> r.value, listings |-> r.listings,
                       fetches |-> r.fetches, hit |-> r.hit,
                       returned_before |-> before,
                       earlier |-> IF before THEN entry_of(k).value ELSE r.value,
                       others_since |-> IF before THEN Len(recency) - position_of(k) ELSE 0]
           /\ recency' = IF r.exc = NoExc
                         THEN Append(others(k), [k |-> k, value |-> r.value])
                         ELSE recency
    /\ UNCHANGED <<inflight, log_fails, active, patch, upstream, failing, call, resp, handled, usage_log>>

LookedId(k, r) ==
    /\ Looked(k, [exc |-> NoExc, value |-> r.value, listings |-> r.listings,
                  fetches |-> <<>>, hit |-> r.listings = 0])
    /\ cache_id' = r.cache

LookupId(k) ==
    /\ look # None /\ look.fn = "get_player_id"
    /\ LookedId(k, get_player_id(cache_id, NameKey(k)))
    /\ UNCHANGED <<cache_name, cache_data>>

LookedName(k, r) ==
    /\ Looked(k, [exc |-> NoExc, value |-> r.value, listings |-> r.listings,
                  fetches |-> <<>>, hit |-> r.listings = 0])
    /\ cache_name' = r.cache

LookupName(k) ==
    /\ look # None /\ look.fn = "get_player_name_from_id"
    /\ LookedName(k, get_player_name_from_id(cache_name, IdKey(k)))
    /\ UNCHANGED <<cache_id, cache_data>>

LookedData(k, a, r) ==
    /\ Looked(k, [exc |-> r.exc, value |-> r.value, listings |-> 0,
                  fetches |-> fetches_of(a[1], r), hit |-> r.hit])
    /\ cache_data' = r.cache

LookupData(k) ==
    /\ look # None /\ look.fn = "get_player_data_from_nba_api"
    /\ LookedData(k, DataKey(k),
                  get_player_data_from_nba_api(cache_data, DataKey(k)[1], DataKey(k)[2],
                      DataKey(k)[3], DataKey(k)[4], DataKey(k)[5]))
    /\ UNCHANGED <<cache_id, cache_name>>

\* The provider holds a regular-season table for player 1 and nothing for the
\* other players.
InitCache ==
    /\ upstream = [p \in CachePlayers |->
                      IF p = 1 THEN ProviderData(<<<<<<PerGame, RegularSeason>>, 1>>>>, {})
                      ELSE NoData]
    /\ failing = NoCombo
    /\ cache_id = <<>> /\ cache_name = <<>> /\ cache_data = <<>>
    /\ call = None /\ resp = None /\ handled = 0
    /\ \E fn \in CacheFns :
          look = [fn |-> fn, n |-> 0, k |-> 0, exc |-> NoExc, value |-> None,
                  listings |-> 0, fetches |-> <<>>, hit |-> FALSE,
                  returned_before |-> FALSE, earlier |-> None, others_since |-> 0]
    /\ recency = <<>>
    /\ usage_log = <<>>
    /\ log_fails = FALSE /\ active = players_get_players /\ patch = None /\ inflight = <<>>

NextCache ==
    \/ \E k \in {1, look.n + 1} : LookupId(k)
    \/ \E k \in {1, look.n + 1} : LookupName(k)
    \/ \E k \in {1, look.n + 1} : LookupData(k)

SpecCache == InitCache /\ [][NextCache]_vars

\* ---------------------------------------------------- the caches: claims
Maxsize(fn) ==
    CASE fn = "get_player_id" -> MaxsizeId
      [] fn = "get_player_name_from_id" -> MaxsizeName
      [] fn = "get_player_data_from_nba_api" -> MaxsizeData

Recalled == look # None /\ look.k # 0 /\ look.returned_before

PayloadOf(r) ==
    IF r.endpoint = "/player"
    THEN player_payload(r.request.name, r.request.season_type, r.request.stats_mode)
    ELSE IF r.endpoint = "/compare"
    THEN compare_payload(r.request.player1, r.request.player2, r.request.season_type,
                         r.request.stats_mode)
    ELSE IF r.endpoint = "/lineup"
    THEN lineup_payload(r.request.players, r.request.metric)
    ELSE model_dump_json(r.request)

RowOf(r) == [timestamp |-> "utcnow", endpoint |-> r.endpoint, payload |-> PayloadOf(r)]

AnswerOf(r) ==
    IF r.endpoint = "/player"
    THEN get_player_profile(Caches, r.request.name, r.request.season_type,
                            r.request.stats_mode).answer
    ELSE IF r.endpoint = "/compare"
    THEN compare_players(Caches, r.request.player1, r.request.player2,
                         r.request.season_type, r.request.stats_mode).answer
    ELSE IF r.endpoint = "/lineup"
    THEN get_lineup_stats(Caches, r.request.players, r.request.metric).answer
    ELSE get_category_recommendations(Caches, active, patch, r.request).answer

\* C12: a failure of log_usage never fails the request: the answer has the
\* status and the body it would have had with a successful write.
C12_LogFailureNeverFailsRequest ==
    [][handled' = handled + 1 => resp'.answer = AnswerOf(resp')]_vars


\* ---------------------------------------------------------- error details
\* C13: when /player or /compare answers 500 because the reconciliation
\* raised, the detail is a fixed generic message: the text of the internal
\* exception is not part of it.
C13_GenericDetailOn500 ==
    (resp # None /\ resp.endpoint \in {"/player", "/compare"} /\ resp.answer.status = 500)
        => ~resp.answer.detail.exc_text


\* ------------------------------------------------- the helpers on their own
\* The directory lookups and safe_float called directly, on names and values
\* drawn from bounded sets.
NameChars(c) ==
    IF c \in {" ", "-"} THEN {" ", "-"} ELSE {upper_char(c), lower_char(c)}

RECURSIVE NameVariants(_)
\* The spellings of a name: any case for a letter, either of space and hyphen
\* for a space or a hyphen.
NameVariants(n) ==
    IF n = <<>> THEN {<<>>}
    ELSE {<<c>> \o rest : c \in NameChars(Head(n)), rest \in NameVariants(Tail(n))}

LookedUpNames ==
    {NameX} \cup UNION {NameVariants(players_get_players[i].full_name) :
                           i \in DOMAIN players_get_players}

FloatInputs ==
    {None, NaN, Inf(1), Inf(0 - 1), IntV(7), IntV(0), FloatV(28949), FloatV(0 - 1250),
     FloatV(24150), StrV(<<"n", "a", "n">>), StrV(<<"N", "a", "N">>),
     StrV(<<"i", "n", "f">>), StrV(<<"-", "i", "n", "f">>),
     StrV(<<"I", "n", "f", "i", "n", "i", "t", "y">>), StrV(<<"a", "b", "c">>),
     StrV(<<"1", ".", "2", "5">>), StrV(<<"-", "7">>), StrV(<<>>), ListV}
Precisions == {None, IntV(1), IntV(2), IntV(3)}

\* Rows of a per-game table and of an advanced table: the games played absent,
\* null, an int, a whole float, a fraction, not-a-number or a text; the
\* points and the true shooting a float, not-a-number, a text or absent.
Series(cols) == [t |-> "Series", cols |-> cols]
GamesInputs == {None, IntV(70), FloatV(70000), FloatV(70500), NaN, StrV(<<"a", "b", "c">>)}
BasicRowInputs ==
    {Series([SEASON_ID |-> 1, PTS |-> FloatV(25123)])}
    \cup {Series([SEASON_ID |-> 1, GP |-> gp, GS |-> IntV(5), PTS |-> pts]) :
              gp \in GamesInputs, pts \in {FloatV(25123), NaN}}
    \cup {Series([SEASON_ID |-> 1, GP |-> IntV(70), GS |-> gs, PTS |-> StrV(<<"a", "b", "c">>)]) :
              gs \in {None, NaN}}
AdvancedRowInputs ==
    {Series([SEASON_ID |-> 1]),
     Series([SEASON_ID |-> 1, TS_PCT |-> FloatV(588), PIE |-> None]),
     Series([SEASON_ID |-> 1, TS_PCT |-> NaN, PIE |-> StrV(<<"a", "b", "c">>)])}

InitFn ==
    /\ upstream = ProviderFor(NoData) /\ failing = NoCombo
    /\ cache_id = <<>> /\ cache_name = <<>> /\ cache_data = <<>>
    /\ call = None /\ resp = None /\ handled = 0
    /\ look = None /\ recency = <<>>
    /\ usage_log = <<>>
    /\ log_fails = FALSE /\ active = players_get_players /\ patch = None /\ inflight = <<>>

\* get_player_id(name) has returned rid, and for an id that is not None
\* get_player_name_from_id(id) has returned rname.
NameResolved(name, rid, rname) ==
    /\ handled < MaxCalls
    /\ handled' = handled + 1
    /\ call' = [fn |-> "get_player_id", name |-> name, id |-> rid.value,
                full_name |-> IF rid.value = None THEN None ELSE rname.value]
    /\ cache_id' = rid.cache
    /\ cache_name' = IF rid.value = None THEN cache_name ELSE rname.cache
    /\ UNCHANGED <<upstream, failing, cache_data, resp, look, recency, usage_log,
                   inflight, log_fails, active, patch>>

NameLooked(name, rid) ==
    NameResolved(name, rid,
                 IF rid.value = None THEN None
                 ELSE get_player_name_from_id(cache_name, rid.value.v))

ResolveName(name) == NameLooked(name, get_player_id(cache_id, name))

SafeFloat(value, precision) ==
    /\ handled < MaxCalls
    /\ handled' = handled + 1
    /\ call' = [fn |-> "safe_float", value |-> value, precision |-> precision,
                result |-> safe_float(value, precision)]
    /\ UNCHANGED <<upstream, failing, cache_id, cache_name, cache_data, resp, look,
                   recency, usage_log, inflight, log_fails, active, patch>>

\* A direct call of one of the two row parsers.
ParseRow(fn, row, result) ==
    /\ handled < MaxCalls
    /\ handled' = handled + 1
    /\ call' = [fn |-> fn, row |-> row, result |-> result]
    /\ UNCHANGED <<upstream, failing, cache_id, cache_name, cache_data, resp, look,
                   recency, usage_log, inflight, log_fails, active, patch>>

ParseBasicRow(row) ==
    ParseRow("_parse_api_row_to_basic_stats", row, _parse_api_row_to_basic_stats(row))
ParseAdvancedRow(row) ==
    ParseRow("_parse_api_row_to_advanced_stats", row, _parse_api_row_to_advanced_stats(row))

NextFn ==
    \/ \E name \in LookedUpNames : ResolveName(name)
    \/ \E value \in FloatInputs, precision \in Precisions : SafeFloat(value, precision)
    \/ \E row \in BasicRowInputs : ParseBasicRow(row)
    \/ \E row \in AdvancedRowInputs : ParseAdvancedRow(row)

SpecFn == InitFn /\ [][NextFn]_vars

\* The directory entries a looked-up name is a spelling of.
EntriesSpelled(name) ==
    {i \in DOMAIN players_get_players : name \in NameVariants(players_get_players[i].full_name)}

\* C14: for every directory entry (id i, canonical name n) and every spelling
\* s of n that differs from it in case and in spaces exchanged with hyphens,
\* get_player_id(s) is i and get_player_name_from_id(get_player_id(s)) is n,
\* also when n contains a hyphen.
C14_NameRoundTrip ==
    (call # None /\ call.fn = "get_player_id")
        => \A i \in EntriesSpelled(call.name) :
               /\ call.id = IntV(players_get_players[i].id)
               /\ call.full_name = players_get_players[i].full_name

\* C15: safe_float returns None, never zero and never a value that is not
\* finite, for None, not-a-number, an infinity, a not-a-number or infinity
\* word given as text and an input float() cannot convert; for every other
\* input it returns the value rounded to the precision.
IsMissing(value) ==
    \/ value = None
    \/ value.t \in {"nan", "inf", "list"}
    \/ value.t = "str" /\ float_of_text(value.v).t # "float"

C15_SafeFloatNullOrRounded ==
    (call # None /\ call.fn = "safe_float")
        => IF IsMissing(call.value) THEN call.result = None
           ELSE /\ call.result.t = "float"
                /\ call.result.v = IF call.precision = None THEN float_of(call.value).v
                                   ELSE round_to(float_of(call.value).v, call.precision.v)


\* ------------------------------------------------------ lineup aggregation
\* The summary the latest regular season of a player's provider tables gives:
\* the basic row of the highest season identifier, with the advanced values of
\* the same season when its advanced table can be fetched and has it; None
\* when there is no such basic row.
TableRows(id, mode) ==
    IF failing = <<mode, RegularSeason>> THEN <<>>
    ELSE season_totals(upstream[id][<<mode, RegularSeason>>], <<mode, RegularSeason>>)
RowIds(rows) == {rows[i].cols.SEASON_ID : i \in DOMAIN rows}
LatestId(id) == MaxOf(RowIds(TableRows(id, PerGame)) \cup RowIds(TableRows(id, Advanced)))
HasSummary(id) ==
    /\ RowIds(TableRows(id, PerGame)) # {}
    /\ LatestId(id) \in RowIds(TableRows(id, PerGame))
TableSummary(id) ==
    IF ~HasSummary(id) THEN None
    ELSE LET basic == temp_season_data_basic(TableRows(id, PerGame))[LatestId(id)].basic
             adv == IF LatestId(id) \in RowIds(TableRows(id, Advanced))
                    THEN temp_season_data_adv(TableRows(id, Advanced))[LatestId(id)].advanced
                    ELSE None
         IN  [points_per_game |-> basic.pts_per_game,
              true_shooting_pct |-> IF adv = None THEN None ELSE adv.ts_pct,
              minutes_per_game |-> basic.min_per_game]
LineupIds(r) == [i \in DOMAIN r.request.players |-> ResolvedId(r.request.players[i])]
LineupSummaries(r) == [i \in DOMAIN r.request.players |-> TableSummary(LineupIds(r)[i])]
LineupResolves(r) ==
    /\ r.endpoint = "/lineup"
    /\ r.request.players # <<>>
    /\ \A i \in DOMAIN r.request.players : Resolves(r.request.players[i])

\* C16: for a lineup of which some player has a latest-season summary,
\* /lineup answers with the aggregate of the summaries: a numeric field no
\* player has a value for is absent; otherwise avg_<field> is the sum of the
\* values present over their number (not over the lineup size), or
\* total_<field> their sum, rounded to two decimals.
C16_LineupAggregate ==
    (/\ resp # None
     /\ LineupResolves(resp)
     /\ \E i \in DOMAIN resp.request.players : HasSummary(LineupIds(resp)[i]))
        => /\ resp.answer.status = 200
           /\ resp.answer.body.aggregated_stats_from_latest_season_summary
                  = aggregated_stats(numeric_fields, LineupSummaries(resp),
                                     resp.request.metric)


MockBasicStats(gp, min_pg, pts_pg, tov_pg, fg_pct, fga_pg) ==
    [t |-> "BasicStatsModel", gp |-> gp, gs |-> gp, min_per_game |-> min_pg,
     pts_per_game |-> pts_pg,
     fga_per_game |-> fga_pg, fg_pct |-> fg_pct, fg3m_per_game |-> FloatV(2000),
     fg3_pct |-> FloatV(350),
     fta_per_game |-> FloatV(5000), ft_pct |-> FloatV(800), reb_per_game |-> FloatV(5000),
     ast_per_game |-> FloatV(5000), tov_per_game |-> tov_pg, stl_per_game |-> FloatV(1000),
     blk_per_game |-> FloatV(500)]

MockAdvancedStats ==
    [t |-> "AdvancedStatsModel", off_rating |-> FloatV(110000), def_rating |-> FloatV(105000),
     net_rating |-> FloatV(5000), ast_pct |-> FloatV(150), reb_pct |-> FloatV(150),
     ts_pct |-> FloatV(550), usg_pct |-> FloatV(200), pie |-> FloatV(100),
     ws |-> FloatV(2000)]

MockSeason(basic_stats) ==
    [t |-> "SeasonStats", season_id |-> 2, team_abbreviation |-> "XYZ",
     player_age |-> IntV(25), basic_stats |-> basic_stats,
     advanced_stats |-> MockAdvancedStats]

\* A season for which only the basic stats were fetched.
MockBasicSeason(basic_stats) == [MockSeason(basic_stats) EXCEPT !.advanced_stats = None]

\* A bundle with the regular-season list given.
create_mock_player_data_bundle(seasons) ==
    [historical_regular_seasons |-> seasons, career_regular_season |-> None,
     historical_playoff_seasons |-> None, career_playoffs |-> None]

\* Player 1 scores high, 2 is at both thresholds, 3 is one game short, 4 a
\* tenth of a minute short, 5 ties with 1 on points, 6 has no basic stats in
\* the latest season, 7 has a null list, 8 has the field-goal percentage of
\* 1 on fewer attempts, no free-throw attempts and no advanced stats; for 9
\* the reconciliation raises; 10 has no bundle.
MOCK_PLAYER_DATA_BUNDLES ==
    <<create_mock_player_data_bundle(<<MockSeason(
          MockBasicStats(IntV(70), FloatV(30000), FloatV(25000), FloatV(2000),
                         FloatV(450), FloatV(18000)))>>),
      create_mock_player_data_bundle(<<MockSeason(
          MockBasicStats(IntV(10), FloatV(15000), FloatV(15000), FloatV(1500),
                         FloatV(500), FloatV(10000)))>>),
      create_mock_player_data_bundle(<<MockSeason(
          MockBasicStats(IntV(9), FloatV(30000), FloatV(30000), FloatV(500),
                         FloatV(550), FloatV(15000)))>>),
      create_mock_player_data_bundle(<<MockSeason(
          MockBasicStats(IntV(70), FloatV(14900), FloatV(28000), FloatV(1000),
                         FloatV(400), FloatV(8000)))>>),
      create_mock_player_data_bundle(<<MockSeason(
          MockBasicStats(IntV(65), FloatV(32000), FloatV(25000), FloatV(1500),
                         FloatV(380), FloatV(0)))>>),
      create_mock_player_data_bundle(<<MockSeason(
          MockBasicStats(IntV(70), FloatV(30000), FloatV(18000), FloatV(2500),
                         FloatV(550), FloatV(15000))), MockSeason(None)>>),
      create_mock_player_data_bundle(None),
      create_mock_player_data_bundle(<<MockBasicSeason(
          [MockBasicStats(IntV(60), FloatV(28000), FloatV(20000), FloatV(3000),
                          FloatV(450), FloatV(2000))
               EXCEPT !.fta_per_game = FloatV(0)])>>)>>

MockPlayer(id) == [id |-> id, full_name |-> <<"P", int_str(id)[1]>>]
MOCK_ACTIVE_PLAYERS_LISTS ==
    {<<>>,
     <<MockPlayer(1), MockPlayer(2), MockPlayer(3), MockPlayer(4), MockPlayer(5),
       MockPlayer(6), MockPlayer(7), MockPlayer(10)>>,
     <<MockPlayer(10), MockPlayer(8), MockPlayer(9), MockPlayer(5), MockPlayer(4),
       MockPlayer(3), MockPlayer(2), MockPlayer(1)>>,
     <<MockPlayer(3), MockPlayer(6), MockPlayer(7)>>}

UNKNOWN_CAT == <<"U", "N", "K", "N", "O", "W", "N", "_", "C", "A", "T">>
TS_PCT == <<"T", "S", "_", "P", "C", "T">>
\* Every code of CATEGORY_MAP, and FG3_PCT.
AllCodes == [i \in DOMAIN CATEGORY_MAP |-> CATEGORY_MAP[i].code] \o <<FG3_PCT>>
MockRequests ==
    {RecommendationRequest(<<PTS>>, 5, <<>>),
     RecommendationRequest(<<PTS>>, 1, <<>>),
     RecommendationRequest(<<PTS>>, 2, <<1>>),
     RecommendationRequest(<<pts_per_game, TOV>>, 3, <<>>),
     RecommendationRequest(<<UNKNOWN_CAT, PTS>>, 1, <<>>),
     RecommendationRequest(<<PTS, UNKNOWN_CAT, TOV>>, 20, <<2>>),
     RecommendationRequest(<<UNKNOWN_CAT>>, 2, <<>>),
     RecommendationRequest(<<FG_PCT, FG3_PCT>>, 5, <<>>),
     RecommendationRequest(<<>>, 2, <<5, 10>>),
     RecommendationRequest(<<FG_PCT>>, 5, <<>>),
     RecommendationRequest(<<FT_PCT>>, 5, <<>>),
     RecommendationRequest(<<TOV>>, 5, <<>>),
     RecommendationRequest(<<TS_PCT, PTS>>, 5, <<>>),
     RecommendationRequest(SubSeq(AllCodes, 1, 7), 5, <<>>),
     RecommendationRequest(SubSeq(AllCodes, 8, 14), 5, <<>>),
     RecommendationRequest(SubSeq(AllCodes, 15, 21), 5, <<>>)}

InitRec ==
    /\ upstream = ProviderFor(NoData) /\ failing = NoCombo
    /\ cache_id = <<>> /\ cache_name = <<>> /\ cache_data = <<>>
    /\ call = None /\ resp = None /\ handled = 0
    /\ look = None /\ recency = <<>>
    /\ usage_log = <<>>
    /\ log_fails = FALSE
    /\ active \in MOCK_ACTIVE_PLAYERS_LISTS
    /\ patch = [t |-> "patch", bundles |-> MOCK_PLAYER_DATA_BUNDLES, raising |-> {9}]
    /\ inflight = <<>>

NextRec == \E request_body \in MockRequests : RecommendRequest(request_body)

SpecRec == InitRec /\ [][NextRec]_vars


IsRecommendation(r) == r # None /\ r.endpoint = "/recommendations/categories"
Recs(r) == r.answer.body.recommendations
RecIds(r) == {Recs(r)[i].player_id.v : i \in DOMAIN Recs(r)}
ExcludedIds(r) ==
    {r.request.excluded_player_ids[i] : i \in DOMAIN r.request.excluded_player_ids}
BundleOf(id) == IF id \in DOMAIN patch.bundles THEN patch.bundles[id] ELSE None
LatestSeason(id) ==
    BundleOf(id).historical_regular_seasons[Len(BundleOf(id).historical_regular_seasons)]

\* The conditions under which a pool player may be recommended.
Eligible(r, id) ==
    /\ id \notin ExcludedIds(r)
    /\ BundleOf(id) # None
    /\ list_truth(BundleOf(id).historical_regular_seasons)
    /\ LatestSeason(id).basic_stats # None
    /\ LatestSeason(id).basic_stats.gp # None
    /\ LatestSeason(id).basic_stats.gp.v >= 10
    /\ LatestSeason(id).basic_stats.min_per_game # None
    /\ LatestSeason(id).basic_stats.min_per_game.v >= 15000
PoolIds == {active[i].id : i \in DOMAIN active}
EligibleIds(r) == {id \in PoolIds : Eligible(r, id)}
PoolPlace(id) == CHOOSE i \in DOMAIN active : active[i].id = id
MinOf(a, b) == IF a < b THEN a ELSE b

\* C18: a pool player is recommended only if its id is not excluded, it has
\* a regular-season list whose latest record has basic stats, and there
\* gp >= 10 and min_per_game >= 15.0 (9 games are too few, 10 are enough);
\* every pool player for whom all this holds is a candidate, so all of them
\* are recommended when no more than num_recommendations are eligible.
C18_EligiblePlayersOnly ==
    IsRecommendation(resp) =>
        /\ resp.answer.status = 200
        /\ RecIds(resp) \subseteq EligibleIds(resp)
        /\ Cardinality(EligibleIds(resp)) <= resp.request.num_recommendations
               => EligibleIds(resp) \subseteq RecIds(resp)

\* Of a pool holding the player with 10 games and 15.0 minutes, the one
\* with 9 games and the one with 14.9 minutes, the first is recommended and
\* the other two are not.
C18_Witness ==
    /\ IsRecommendation(resp)
    /\ {2, 3, 4} \subseteq PoolIds
    /\ 2 \in RecIds(resp)
    /\ 3 \notin RecIds(resp) /\ 4 \notin RecIds(resp)

\* The score the scoring function gives a pool player for the request.
ScoreOf(r, id) ==
    calculate_heuristic_score_for_player(BundleOf(id), r.request.target_categories,
                                         <<>>).recommendation_score.v

\* C19: the recommendations are in descending order of recommendation_score,
\* candidates of equal score in pool order; they are the first
\* min(num_recommendations, number of eligible players) of that order; an
\* empty pool gives a 200 with an empty list.
C19_RankedAndTruncated ==
    IsRecommendation(resp) =>
        /\ resp.answer.status = 200
        /\ Len(Recs(resp)) = MinOf(resp.request.num_recommendations,
                                   Cardinality(EligibleIds(resp)))
        /\ \A i, j \in DOMAIN Recs(resp) :
               i < j =>
                   \/ Recs(resp)[i].recommendation_score.v
                          > Recs(resp)[j].recommendation_score.v
                   \/ /\ Recs(resp)[i].recommendation_score.v
                             = Recs(resp)[j].recommendation_score.v
                      /\ PoolPlace(Recs(resp)[i].player_id.v)
                             < PoolPlace(Recs(resp)[j].player_id.v)
        /\ \A id \in EligibleIds(resp) \ RecIds(resp) :
               \A i \in DOMAIN Recs(resp) :
                   \/ Recs(resp)[i].recommendation_score.v > ScoreOf(resp, id)
                   \/ /\ Recs(resp)[i].recommendation_score.v = ScoreOf(resp, id)
                      /\ PoolPlace(Recs(resp)[i].player_id.v) < PoolPlace(id)

\* Two recommendations of equal score have been returned while a third
\* eligible player was cut off.
C19_Witness ==
    /\ IsRecommendation(resp)
    /\ Len(Recs(resp)) = 2
    /\ Recs(resp)[1].recommendation_score = Recs(resp)[2].recommendation_score
    /\ Cardinality(EligibleIds(resp)) > 2

UnknownCodes(r) ==
    {i \in DOMAIN r.request.target_categories :
        ~in_category_map(normalized(r.request.target_categories[i]))}
KnownCategories(r) ==
    SelectSeq(r.request.target_categories, LAMBDA c : in_category_map(normalized(c)))
StatOf(p, code) ==
    {p.targeted_category_stats[k][2] :
        k \in {k \in DOMAIN p.targeted_category_stats :
                  p.targeted_category_stats[k][1] = code}}

\* C20: a requested code whose normalized form is not a category is recorded
\* in targeted_category_stats under the requested code with a null value and
\* adds nothing to the score; the request does not fail and no candidate is
\* dropped: the players recommended and their scores are those of the same
\* request without the unknown codes.
C20_UnknownCategoryIsNull ==
    (IsRecommendation(resp) /\ UnknownCodes(resp) # {}) =>
        /\ resp.answer.status = 200
        /\ \A i \in DOMAIN Recs(resp), k \in UnknownCodes(resp) :
               StatOf(Recs(resp)[i], resp.request.target_categories[k]) = {None}
        /\ \A i \in DOMAIN Recs(resp) :
               Recs(resp)[i].recommendation_score.v
                   = calculate_heuristic_score_for_player(
                         BundleOf(Recs(resp)[i].player_id.v), KnownCategories(resp),
                         <<>>).recommendation_score.v
        /\ [i \in DOMAIN Recs(resp) |-> Recs(resp)[i].player_id]
               = [i \in DOMAIN Recs(get_category_recommendations(Caches, active, patch,
                                        [resp.request EXCEPT
                                            !.target_categories = KnownCategories(resp)])) |->
                     Recs(get_category_recommendations(Caches, active, patch,
                              [resp.request EXCEPT
                                  !.target_categories = KnownCategories(resp)]))[i].player_id]

\* A player has been recommended on points with an unknown code in the request.
C20_Witness ==
    /\ IsRecommendation(resp)
    /\ UnknownCodes(resp) # {}
    /\ KnownCategories(resp) # <<>>
    /\ Recs(resp) # <<>>
    /\ Recs(resp)[1].recommendation_score.v > 0
    /\ StatOf(Recs(resp)[1], UNKNOWN_CAT) = {None}

\* ------------------------------------------------- the scoring: the claims
EnumeratedCodes == {AllCodes[i] : i \in DOMAIN AllCodes}
\* The stat of a season record an enumerated code stands for.
CorrespondingStat(season, code) ==
    IF code = FG3_PCT THEN season.basic_stats.fg3_pct
    ELSE category_stat_value(category_of(code), season.basic_stats, season.advanced_stats)
RequestedCodes(r) == {r.request.target_categories[k] : k \in DOMAIN r.request.target_categories}

\* C21: every code of the enumerated category set, FG3_PCT among them, is
\* recognized: when the latest season of a recommended player holds the stat
\* of a requested code, the targeted_category_stats entry of that code is
\* that stat and not null.
C21_EnumeratedCodesRecognized ==
    IsRecommendation(resp) =>
        \A i \in DOMAIN Recs(resp), code \in RequestedCodes(resp) \cap EnumeratedCodes :
            CorrespondingStat(LatestSeason(Recs(resp)[i].player_id.v), code) # None
                => StatOf(Recs(resp)[i], code)
                       = {CorrespondingStat(LatestSeason(Recs(resp)[i].player_id.v), code)}

RecBasic(p) == LatestSeason(p.player_id.v).basic_stats
\* The percentage and the attempts per game of a percentage category.
PctOf(p, cat) == IF cat = FG_PCT THEN RecBasic(p).fg_pct ELSE RecBasic(p).ft_pct
AttemptsOf(p, cat) ==
    IF cat = FG_PCT THEN RecBasic(p).fga_per_game ELSE RecBasic(p).fta_per_game
IsPctRequest(r) == IsRecommendation(r) /\ r.request.target_categories \in {<<FG_PCT>>, <<FT_PCT>>}
PctCat(r) == r.request.target_categories[1]

\* C22: with FG_PCT (or FT_PCT) as the requested category, the score of a
\* recommended player whose percentage is populated is the percentage times
\* the attempts per game times 0.1, rounded to two decimals, also for 0
\* attempts, where it is 0; of two players with the same percentage the one
\* with fewer attempts never has the larger score.
C22_VolumeWeighted ==
    IsPctRequest(resp) =>
        /\ \A i \in DOMAIN Recs(resp) :
               (PctOf(Recs(resp)[i], PctCat(resp)) # None
                    /\ AttemptsOf(Recs(resp)[i], PctCat(resp)) # None)
               => Recs(resp)[i].recommendation_score.v
                      = round_score((PctOf(Recs(resp)[i], PctCat(resp)).v
                                     * AttemptsOf(Recs(resp)[i], PctCat(resp)).v) \div 10)
        /\ \A i, j \in DOMAIN Recs(resp) :
               (/\ PctOf(Recs(resp)[i], PctCat(resp)) = PctOf(Recs(resp)[j], PctCat(resp))
                /\ AttemptsOf(Recs(resp)[i], PctCat(resp)).v
                       < AttemptsOf(Recs(resp)[j], PctCat(resp)).v)
               => Recs(resp)[i].recommendation_score.v
                      <= Recs(resp)[j].recommendation_score.v

IsTovRequest(r) == IsRecommendation(r) /\ r.request.target_categories = <<TOV>>

\* C23: with TOV as the only requested category the score of a recommended
\* player is minus its tov_per_game, negated once, and every eligible player
\* with fewer turnovers per game stands above every one with more.
C23_FewerTurnoversRankHigher ==
    IsTovRequest(resp) =>
        /\ \A i \in DOMAIN Recs(resp) :
               /\ RecBasic(Recs(resp)[i]).tov_per_game # None
               /\ Recs(resp)[i].recommendation_score.v
                      = 0 - RecBasic(Recs(resp)[i]).tov_per_game.v
        /\ \A i, j \in DOMAIN Recs(resp) :
               RecBasic(Recs(resp)[i]).tov_per_game.v < RecBasic(Recs(resp)[j]).tov_per_game.v
                   => i < j
        /\ \A id \in EligibleIds(resp) \ RecIds(resp) :
               \A i \in DOMAIN Recs(resp) :
                   RecBasic(Recs(resp)[i]).tov_per_game.v
                       <= LatestSeason(id).basic_stats.tov_per_game.v

\* A player with 1.5 turnovers per game has been ranked above one with 2.0,
\* which entered the pool before it.
C23_Witness ==
    /\ IsTovRequest(resp)
    /\ \E i, j \in DOMAIN Recs(resp) :
           /\ i < j
           /\ Recs(resp)[i].recommendation_score.v = 0 - 1500
           /\ Recs(resp)[j].recommendation_score.v = 0 - 2000
           /\ PoolPlace(Recs(resp)[j].player_id.v) < PoolPlace(Recs(resp)[i].player_id.v)

\* A requested code that is a category whose stat the latest season of the
\* player does not hold.
IsNullFor(id, code) ==
    /\ in_category_map(normalized(code))
    /\ category_stat_value(category_of(normalized(code)), LatestSeason(id).basic_stats,
                           LatestSeason(id).advanced_stats) = None
PopulatedCategories(r, id) ==
    SelectSeq(r.request.target_categories, LAMBDA c : ~IsNullFor(id, c))

\* C24: a requested category whose stat is null for a recommended player
\* has a null targeted_category_stats entry and adds nothing to the score,
\* which is the score of the other requested categories; the player is not
\* disqualified: every eligible player is recommended when no more than
\* num_recommendations are eligible.
C24_NullStatAddsZero ==
    IsRecommendation(resp) =>
        /\ \A i \in DOMAIN Recs(resp), code \in RequestedCodes(resp) :
               IsNullFor(Recs(resp)[i].player_id.v, code)
                   => StatOf(Recs(resp)[i], code) = {None}
        /\ \A i \in DOMAIN Recs(resp) :
               Recs(resp)[i].recommendation_score.v
                   = calculate_heuristic_score_for_player(
                         BundleOf(Recs(resp)[i].player_id.v),
                         PopulatedCategories(resp, Recs(resp)[i].player_id.v),
                         <<>>).recommendation_score.v
        /\ Cardinality(EligibleIds(resp)) <= resp.request.num_recommendations
               => EligibleIds(resp) \subseteq RecIds(resp)

\* The player without advanced stats has been recommended for true shooting
\* and points with its 20.0 points as the score and a null true-shooting
\* entry, next to a player whose true-shooting entry is populated.
C24_Witness ==
    /\ IsRecommendation(resp)
    /\ resp.request.target_categories = <<TS_PCT, PTS>>
    /\ \E i, j \in DOMAIN Recs(resp) :
           /\ Recs(resp)[i].player_id.v = 8
           /\ StatOf(Recs(resp)[i], TS_PCT) = {None}
           /\ Recs(resp)[i].recommendation_score.v = 20000
           /\ StatOf(Recs(resp)[j], TS_PCT) = {FloatV(550)}

\* ------------------------------------------------- row parsing: the claims
IsParse(c) ==
    c # None /\ c.fn \in {"_parse_api_row_to_basic_stats", "_parse_api_row_to_advanced_stats"}
\* The column a field of a stats record is read from.
ColumnOf(field) ==
    CASE field = "gp" -> "GP" [] field = "gs" -> "GS" [] field = "pts_per_game" -> "PTS"
      [] field = "ts_pct" -> "TS_PCT" [] field = "pie" -> "PIE"
CheckedFields(c) ==
    IF c.fn = "_parse_api_row_to_basic_stats" THEN {"gp", "gs", "pts_per_game"}
    ELSE {"ts_pct", "pie"}
\* The source value is absent, null, not-a-number or not numeric.
IsMalformed(row, column) ==
    \/ column \notin DOMAIN row.cols
    \/ row.cols[column] = None
    \/ row.cols[column].t \in {"nan", "str"}

\* C25: the two row parsers never raise, and a numeric field of the record,
\* gp and gs among them, is null when its source value is absent, null,
\* not-a-number or not numeric.
C25_ParsersNeverRaise ==
    IsParse(call) =>
        /\ call.result.t # "raised"
        /\ \A field \in CheckedFields(call) :
               IsMalformed(call.row, ColumnOf(field)) => call.result[field] = None

\* ------------------------------------- reconciliation: records and rows
\* The positions of the rows of a season in a fetched table, and the team
\* the row at a position carries.
RowsOfSeason(c, mode, st, sid) ==
    {i \in DOMAIN TableSeasons(c, mode, st) : TableSeasons(c, mode, st)[i] = sid}
TeamOfRow(mode, st, i) == SeasonRow(<<mode, st>>, i, 1).cols.TEAM_ABBREVIATION
HasRepeatedSeason(c, st) ==
    \E mode \in Modes, sid \in SeasonIds : Cardinality(RowsOfSeason(c, mode, st, sid)) > 1
RecordsOfSeason(c, st, sid) ==
    {i \in DOMAIN ResultRecords(c, st) : ResultRecords(c, st)[i].season_id = sid}

\* C26: a reconciled season list has at most one record per season
\* identifier; when a fetched table has several rows of one season, the
\* list still has exactly one record of that season, built from one of the
\* rows of that season.
C26_OneRecordPerSeason ==
    call # None =>
        \A st \in SeasonTypes, sid \in SeasonIds :
            /\ Cardinality(RecordsOfSeason(call, st, sid)) <= 1
            /\ (\E mode \in Modes : Cardinality(RowsOfSeason(call, mode, st, sid)) > 1)
                   => \E i \in RecordsOfSeason(call, st, sid) :
                          ResultRecords(call, st)[i].team_abbreviation
                              \in UNION {{TeamOfRow(mode, st, k) :
                                             k \in RowsOfSeason(call, mode, st, sid)} :
                                         mode \in Modes}

\* The team and the age a record of a season must carry: those of the
\* basic-mode row of the season when the basic-mode table has the season,
\* those of the advanced-mode row of the season otherwise.
MetaMode(c, st, sid) == IF sid \in TableIds(c, PerGame, st) THEN PerGame ELSE Advanced
MetaTeams(c, st, sid) ==
    {TeamOfRow(MetaMode(c, st, sid), st, k) :
        k \in RowsOfSeason(c, MetaMode(c, st, sid), st, sid)}

\* C27: the call returns, and for every season of a fetched table the list
\* of its season type has a record whose team and age are those of the
\* basic-mode row of that season when the basic-mode table has the season
\* and those of the advanced-mode row of that season otherwise, never those
\* of another season or of the other season type.
C27_MetadataOfTheSeason ==
    call # None =>
        /\ call.exc = NoExc
        /\ \A st \in SeasonTypes :
               \A sid \in TableIds(call, PerGame, st) \cup TableIds(call, Advanced, st) :
                   \E i \in RecordsOfSeason(call, st, sid) :
                       /\ ResultRecords(call, st)[i].team_abbreviation
                              \in MetaTeams(call, st, sid)
                       /\ ResultRecords(call, st)[i].player_age
                              = SeasonRow(<<PerGame, st>>, 1, sid).cols.PLAYER_AGE

\* ------------------------------------------------- concurrent requests
\* The handlers of /player, /compare and /lineup are plain functions, which
\* the server runs on the threads of a pool: several calls of
\* get_player_data_from_nba_api can be under way at once.  lru_cache looks
\* the key up, runs the function without holding a lock on a miss, and
\* stores the value when the function has returned unless the key has been
\* stored meanwhile.  Each fetch of the function is one step of its thread.
NumThreads == 2
MaxEntered == 3
Threads == 1..NumThreads
Idle == [pc |-> "idle"]
ConcKeys == {<<1, TRUE, FALSE, TRUE, TRUE>>, <<2, TRUE, TRUE, TRUE, TRUE>>}

\* The body of the function for a key.
body_of(key) == get_player_data_body(key[1], key[2], key[3], key[4], key[5])

InitConc ==
    /\ \E data \in EndpointData : upstream = ProviderFor(data)
    /\ failing \in {NoCombo, <<Advanced, RegularSeason>>}
    /\ cache_id = <<>> /\ cache_name = <<>> /\ cache_data = <<>>
    /\ call = None /\ resp = None /\ handled = 0
    /\ look = None /\ recency = <<>>
    /\ usage_log = <<>>
    /\ log_fails = FALSE /\ active = players_get_players /\ patch = None
    /\ inflight = [t \in Threads |-> Idle]

\* The wrapper has looked the key up at place i of the cache: a hit returns
\* the stored value at once, a miss starts the function, whose fetches are
\* still to be made.
Entered(t, key, i, r) ==
    /\ handled' = handled + 1
    /\ inflight' = [inflight EXCEPT ![t] =
           IF i # 0
           THEN [pc |-> "returned", key |-> key, exc |-> NoExc,
                 value |-> cache_data[i].value, fetches |-> <<>>, hit |-> TRUE]
           ELSE [pc |-> "running", key |-> key, todo |-> r.fetches, fetches |-> <<>>]]
    /\ cache_data' = IF i # 0 THEN lru_touch(cache_data, i) ELSE cache_data

Enter(t, key) ==
    /\ inflight[t].pc = "idle"
    /\ handled < MaxEntered
    /\ Entered(t, key, lru_index(cache_data, key), body_of(key))
    /\ UNCHANGED <<upstream, failing, cache_id, cache_name, call, resp, look, recency,
                   usage_log, log_fails, active, patch>>

\* fetch_profile_data: the next request to the provider.
Fetch(t) ==
    /\ inflight[t].pc = "running"
    /\ inflight[t].todo # <<>>
    /\ inflight' = [inflight EXCEPT ![t].todo = Tail(@),
                                    ![t].fetches = Append(@, Head(inflight[t].todo))]
    /\ UNCHANGED <<upstream, failing, cache_id, cache_name, cache_data, call, resp,
                   handled, look, recency, usage_log, log_fails, active, patch>>

\* The function has ended with r: the value is stored unless the function
\* raised or the key was stored while it ran.
Returned(t, key, r) ==
    /\ inflight' = [inflight EXCEPT ![t] =
           [pc |-> "returned", key |-> key, exc |-> r.exc, value |-> r.value,
            fetches |-> inflight[t].fetches, hit |-> FALSE]]
    /\ cache_data' = IF r.exc # NoExc \/ lru_index(cache_data, key) # 0 THEN cache_data
                     ELSE lru_store(cache_data, MaxsizeData, key, r.value)

Return(t) ==
    /\ inflight[t].pc = "running"
    /\ inflight[t].todo = <<>>
    /\ Returned(t, inflight[t].key, body_of(inflight[t].key))
    /\ UNCHANGED <<upstream, failing, cache_id, cache_name, call, resp, handled, look,
                   recency, usage_log, log_fails, active, patch>>

\* The request of the thread is answered; the thread is free for the next.
Leave(t) ==
    /\ inflight[t].pc = "returned"
    /\ inflight' = [inflight EXCEPT ![t] = Idle]
    /\ UNCHANGED <<upstream, failing, cache_id, cache_name, cache_data, call, resp,
                   handled, look, recency, usage_log, log_fails, active, patch>>

NextConc ==
    \/ \E t \in Threads, key \in ConcKeys : Enter(t, key)
    \/ \E t \in Threads : Fetch(t)
    \/ \E t \in Threads : Return(t)
    \/ \E t \in Threads : Leave(t)

SpecConc == InitConc /\ [][NextConc]_vars

HasReturned(t) == inflight[t].pc = "returned"
Running(key) == \E t \in Threads : inflight[t].pc = "running" /\ inflight[t].key = key
EntriesOf(key) == {i \in DOMAIN cache_data : cache_data[i].key = key}

\* C28: every request for a key, alone or with others for the same key
\* under way, completes with the result a single request gets, a complete
\* bundle and no exception; and once a request for the key has completed
\* and none is under way, the cache holds one entry for the key.
C28_ConcurrentCallsAgree ==
    \A t \in Threads :
        HasReturned(t) =>
            /\ inflight[t].exc = NoExc
            /\ inflight[t].value = body_of(inflight[t].key).value
            /\ ~Running(inflight[t].key) => Cardinality(EntriesOf(inflight[t].key)) = 1

\* ---------------------------------------------- a provider that recovers
\* get_player_data_from_nba_api is called directly, again and again, while
\* the fetch of the basic regular-season answer raises; at some moment the
\* provider recovers.  Key 1 is the call for the basic regular-season data
\* of player 1, for whom the provider holds a career row.
HealKey(k) == IF k = 1 THEN <<1, TRUE, FALSE, TRUE, FALSE>> ELSE DataKey(k)

InitHeal ==
    /\ upstream = [p \in CachePlayers |->
                      IF p = 1 THEN ProviderData(<<>>, {<<PerGame, RegularSeason>>})
                      ELSE NoData]
    /\ failing = <<PerGame, RegularSeason>>
    /\ cache_id = <<>> /\ cache_name = <<>> /\ cache_data = <<>>
    /\ call = None /\ resp = None /\ handled = 0
    /\ look = [fn |-> "get_player_data_from_nba_api", n |-> 0, k |-> 0, exc |-> NoExc,
               value |-> None, listings |-> 0, fetches |-> <<>>, hit |-> FALSE,
               returned_before |-> FALSE, earlier |-> None, others_since |-> 0]
    /\ recency = <<>>
    /\ usage_log = <<>>
    /\ log_fails = FALSE /\ active = players_get_players /\ patch = None
    /\ inflight = <<>>

HealCall(k) ==
    /\ LookedData(k, HealKey(k),
                  get_player_data_from_nba_api(cache_data, HealKey(k)[1], HealKey(k)[2],
                      HealKey(k)[3], HealKey(k)[4], HealKey(k)[5]))
    /\ UNCHANGED <<cache_id, cache_name>>

\* The provider answers again.
Recover ==
    /\ failing # NoCombo
    /\ failing' = NoCombo
    /\ UNCHANGED <<upstream, cache_id, cache_name, cache_data, call, resp, handled, look,
                   recency, usage_log, log_fails, active, patch, inflight>>

NextHeal ==
    \/ \E k \in {1, look.n + 1} : HealCall(k)
    \/ Recover

SpecHeal == InitHeal /\ [][NextHeal]_vars

\* The bundle of a call whose only fetch failed: nothing in it.
IsDegraded(value) == \A f \in DOMAIN value : value[f] = None
\* Key 1 is called again after a call for it returned a degraded bundle.
DegradedRecalled == Recalled /\ look.k = 1 /\ IsDegraded(look.earlier)

RaisingIds == IF patch = None THEN {} ELSE patch.raising
\* The pool without the players whose reconciliation raises.
PoolWithoutRaising == SelectSeq(active, LAMBDA p : p.id \notin RaisingIds)

\* C30: an exception raised for a pool player only removes that player:
\* the request is answered 200 with the ranking the same request gets over
\* the pool without that player, the players after it included.
C30_RaisingPlayerIsSkipped ==
    IsRecommendation(resp) =>
        /\ resp.answer.status = 200
        /\ RecIds(resp) \cap RaisingIds = {}
        /\ Recs(resp) = Recs(get_category_recommendations(Caches, PoolWithoutRaising,
                                                         patch, resp.request))

\* A player that precedes the raising player in the pool and one that
\* follows it have both been recommended.
C30_Witness ==
    /\ IsRecommendation(resp)
    /\ \E i, j, k \in DOMAIN active :
           /\ i < j /\ j < k
           /\ active[j].id \in RaisingIds
           /\ active[i].id \in RecIds(resp)
           /\ active[k].id \in RecIds(resp)

====
